---------------------------- MODULE Spec2Model ----------------------------
(***************************************************************************)
(* A model of the HowToCook recipe converter (su-dd/HowToCook, python).    *)
(*                                                                         *)
(* Text is modelled as a sequence of characters, each character a string   *)
(* of its own.  A non-ASCII character is written as its code point, so     *)
(* "U+4E2A" is the one character U+4E2A (the measure word "ge").  The      *)
(* regular expressions of the source are modelled by operators that scan   *)
(* such sequences the way Python's re module does: leftmost match, greedy  *)
(* or lazy quantifiers, alternatives in their written order.               *)
(*                                                                         *)
(* An optional value (Python's None or a value) is a sequence of length 0  *)
(* or 1.  A float is a pair <<n, d>> standing for n/d with d a power of    *)
(* ten (or twice one, after a mean).                                       *)
(***************************************************************************)
EXTENDS Integers, Sequences, FiniteSets, TLC

VARIABLES
    q_parts,    \* quantity parser: how the ingredient line was put together
    q_text,     \* quantity parser: the ingredient line handed to the parser
    q_out,      \* quantity parser: what parse_ingredient_text returned
    t_segs,     \* time normalizer: the pieces the document text was put together from
    t_content,  \* time normalizer: the document text handed to _extract_times
    t_out,      \* time normalizer: how _extract_times ended
    d_pieces,   \* extractors: the pieces the document was put together from
    d_file,     \* extractors: the document, its path and its content
    d_extracted, \* extractors: what _extract_with_unstructured returned
    d_legacy,   \* extractors: the record of parse_markdown_file of src/parse_dishes.py
    dishes_uuid_mapping,   \* the identifier mapping: relative path -> identifier
    images_mapping,  \* the image mapping: original path -> new path
    CDNPath,    \* config.CDNPath, the prefix put before a processed image path
    drawn,      \* the names uuid.uuid4() has drawn so far
    p_file,     \* one document: the document handed to parse_markdown_file
    p_first,    \* one document: how the first run of parse_markdown_file ended
    p_second,   \* one document: how the second run, from the same mappings, ended
    s_walk,     \* scan: the directories os.walk yields, each with its files
    s_dir,      \* scan: the directory of the walk the scan is at
    s_file,     \* scan: the file of that directory the scan is at
    dishes_by_category,  \* scan: the collection of records of each category
    s_diagnostics,       \* scan: the diagnostics printed for failed documents
    s_done,     \* scan: scan_dishes_directory has returned
    i_calls,    \* image handler: the calls of get_new_image so far, with what each did
    u_tree,     \* identifier generator: the files under the directories it walks
    uuid_file,  \* identifier generator: the mapping in the file at uuid_file_path
    u_drawn,    \* identifier generator: the identifiers uuid.uuid4() has drawn so far
    u_runs,     \* identifier generator: how each run so far ended
    u_lookups   \* identifier generator: the lookups of visited files in a produced mapping

qvars == <<q_parts, q_text, q_out>>

tvars == <<t_segs, t_content, t_out>>

dvars == <<d_pieces, d_file, d_extracted, d_legacy>>

mvars == <<dishes_uuid_mapping, images_mapping, CDNPath, drawn>>

pvars == <<p_file, p_first, p_second>>

svars == <<s_walk, s_dir, s_file, dishes_by_category, s_diagnostics, s_done>>

ivars == <<i_calls>>

uvars == <<u_tree, uuid_file, u_drawn, u_runs, u_lookups>>

vars == <<q_parts, q_text, q_out, t_segs, t_content, t_out,
          d_pieces, d_file, d_extracted, d_legacy,
          dishes_uuid_mapping, images_mapping, CDNPath, drawn,
          p_file, p_first, p_second,
          s_walk, s_dir, s_file, dishes_by_category, s_diagnostics, s_done,
          i_calls, u_tree, uuid_file, u_drawn, u_runs, u_lookups>>

-----------------------------------------------------------------------------
(* Optional values and floats *)

None == <<>>

Some(x) == <<x>>

IsNone(o) == o = <<>>

Val(o) == o[1]

\* the value of a function of one argument at that argument:
\* Bind([x \in {e} |-> body]) is body with x standing for the value of e
Bind(f) == f[CHOOSE x \in DOMAIN f : TRUE]

\* float(a) == float(b)
FloatEq(x, y) == x[1] * y[2] = y[1] * x[2]

FloatAdd(x, y) == <<x[1] * y[2] + y[1] * x[2], x[2] * y[2]>>

\* x * k for an integer k
FloatTimes(x, k) == <<x[1] * k, x[2]>>

\* int(x) of a non-negative float: truncation
FloatInt(x) == x[1] \div x[2]

-----------------------------------------------------------------------------
(* Characters *)

Digits == {"0", "1", "2", "3", "4", "5", "6", "7", "8", "9"}

DigitValue(c) ==
    CASE c = "0" -> 0 [] c = "1" -> 1 [] c = "2" -> 2 [] c = "3" -> 3
      [] c = "4" -> 4 [] c = "5" -> 5 [] c = "6" -> 6 [] c = "7" -> 7
      [] c = "8" -> 8 [] c = "9" -> 9

\* the characters \s matches and str.strip() removes
Whitespace == {" ", "\t", "\n"}

FullColon == "U+FF1A"

IsDigitAt(s, i) == i >= 1 /\ i <= Len(s) /\ s[i] \in Digits

IsSpaceAt(s, i) == i >= 1 /\ i <= Len(s) /\ s[i] \in Whitespace

\* lit occurs in s at position i
LitAt(s, i, lit) ==
    /\ i >= 1
    /\ i + Len(lit) - 1 <= Len(s)
    /\ \A k \in 1..Len(lit) : s[i + k - 1] = lit[k]

\* s[i..j], empty when j < i
Sub(s, i, j) == IF j < i THEN <<>> ELSE SubSeq(s, i, j)

\* str.strip()
Strip(s) ==
    LET keep == {i \in 1..Len(s) : s[i] \notin Whitespace}
    IN  IF keep = {} THEN <<>>
        ELSE LET lo == CHOOSE i \in keep : \A k \in keep : i <= k
                 hi == CHOOSE i \in keep : \A k \in keep : i >= k
             IN  SubSeq(s, lo, hi)

\* str.replace(c, '') for each character c of the set
RemoveChars(s, cs) == SelectSeq(s, LAMBDA c : c \notin cs)

\* the end of the greedy run \d+ that starts at i (i - 1 when there is none)
DigitsEnd(s, i) ==
    LET stops == {j \in i..Len(s) + 1 : ~IsDigitAt(s, j)}
    IN  (CHOOSE j \in stops : \A k \in stops : j <= k) - 1

\* the end of the match of \d+(?:\.\d+)? at i, 0 when it does not match.
\* What follows the number in every pattern of the source starts with no
\* digit and no '.', so only the longest match can be followed by a match
\* of the rest.
NumberEnd(s, i) ==
    IF ~IsDigitAt(s, i) THEN 0
    ELSE LET j == DigitsEnd(s, i)
         IN  IF LitAt(s, j + 1, <<".">>) /\ IsDigitAt(s, j + 2)
             THEN DigitsEnd(s, j + 2) ELSE j

\* the first position from i on that holds no whitespace: the end of \s*
SkipSpaces(s, i) ==
    LET stops == {j \in i..Len(s) + 1 : ~IsSpaceAt(s, j)}
    IN  CHOOSE j \in stops : \A k \in stops : j <= k

RECURSIVE DigitsInt(_)
\* int() of a run of digits
DigitsInt(ds) ==
    IF ds = <<>> THEN 0
    ELSE 10 * DigitsInt(SubSeq(ds, 1, Len(ds) - 1)) + DigitValue(ds[Len(ds)])

RECURSIVE Pow10(_)
Pow10(k) == IF k = 0 THEN 1 ELSE 10 * Pow10(k - 1)

\* float() of a string matched by \d+(?:\.\d+)?
FloatOf(num) ==
    LET ds == RemoveChars(num, {"."})
        dot == {i \in 1..Len(num) : num[i] = "."}
        frac == IF dot = {} THEN 0 ELSE Len(num) - (CHOOSE i \in dot : TRUE)
    IN  <<DigitsInt(ds), Pow10(frac)>>

-----------------------------------------------------------------------------
(* parse_ingredient_text *)

\* the recognized units, in the order of the alternation
units ==
    << <<"U+514B">>, <<"g">>, <<"k", "g">>, <<"U+6BEB", "U+5347">>, <<"m", "l">>,
       <<"U+5347">>, <<"l">>, <<"U+4E2A">>, <<"U+53EA">>, <<"U+5757">>,
       <<"U+7247">>, <<"U+6839">>, <<"U+6761">>, <<"U+628A">>, <<"U+6735">>,
       <<"U+7C92">>, <<"U+9897">>, <<"U+74E3">>, <<"U+6EF4">>, <<"U+52FA">>,
       <<"U+676F">>, <<"U+7897">>, <<"U+5305">>, <<"U+888B">>, <<"U+74F6">>,
       <<"U+7F50">>, <<"U+76D2">>, <<"U+65A4">>, <<"U+4E24">> >>

\* the match of (u1|u2|...) at i: the index of the first alternative that
\* occurs there, 0 when none does
UnitAt(s, i) ==
    LET hits == {k \in 1..Len(units) : LitAt(s, i, units[k])}
    IN  IF hits = {} THEN 0 ELSE CHOOSE k \in hits : \A m \in hits : k <= m

\* the match of range_pattern that starts exactly at i, None when none does:
\*   (\d+(?:\.\d+)?)\s*-\s*(\d+(?:\.\d+)?)\s*(units)
RangeAt(s, i) ==
    LET e1 == NumberEnd(s, i)
        p  == SkipSpaces(s, e1 + 1)
        q  == SkipSpaces(s, p + 1)
        e2 == NumberEnd(s, q)
        r  == SkipSpaces(s, e2 + 1)
        u  == UnitAt(s, r)
    IN  IF e1 > 0 /\ LitAt(s, p, <<"-">>) /\ e2 > 0 /\ u > 0
        THEN Some([start |-> i, end |-> r + Len(units[u]) - 1,
                   g1 |-> SubSeq(s, i, e1), g2 |-> SubSeq(s, q, e2),
                   g3 |-> units[u]])
        ELSE None

\* re.search(range_pattern, s) from position i on: the leftmost match
RangeSearch(s, i) ==
    Bind([at \in {[k \in 1..Len(s) |-> RangeAt(s, k)]} |->
        LET starts == {k \in i..Len(s) : k >= 1 /\ ~IsNone(at[k])}
        IN  IF starts = {} THEN None
            ELSE at[CHOOSE k \in starts : \A m \in starts : k <= m]])

RECURSIVE RangeSub(_, _)
\* re.sub(range_pattern, '', s) from position i on: every match removed
RangeSub(s, i) ==
    Bind([m \in {RangeSearch(s, i)} |->
        IF IsNone(m) THEN Sub(s, i, Len(s))
        ELSE Sub(s, i, Val(m).start - 1) \o RangeSub(s, Val(m).end + 1)])

\* the match of  ^(.*?)(\d+(?:\.\d+)?)\s*(units)  with the lazy prefix of
\* length p ('.' matches no line break)
SingleAt(s, p) ==
    LET e == NumberEnd(s, p + 1)
        r == SkipSpaces(s, e + 1)
        u == UnitAt(s, r)
    IN  IF e > 0 /\ u > 0 /\ (\A k \in 1..p : s[k] # "\n")
        THEN Some([g1 |-> Sub(s, 1, p), g2 |-> SubSeq(s, p + 1, e), g3 |-> units[u]])
        ELSE None

SingleSearchGreedy(s) ==
    LET ps == {p \in 0..Len(s) : ~IsNone(SingleAt(s, p))}
    IN  IF ps = {} THEN None
        ELSE SingleAt(s, CHOOSE p \in ps : \A m \in ps : p >= m)

\* re.search of that pattern: the shortest prefix that lets the rest match
SingleSearch(s) ==
    LET ps == {p \in 0..Len(s) : ~IsNone(SingleAt(s, p))}
    IN  IF ps = {} THEN None
        ELSE SingleAt(s, CHOOSE p \in ps : \A m \in ps : p <= m)

\* re.search(r'^(.*?)(\d+(?:\.\d+)?)$', s): a number that ends the text ($
\* also matches before a final line break)
BareSearch(s) ==
    LET ends == {Len(s)} \cup (IF LitAt(s, Len(s), <<"\n">>) THEN {Len(s) - 1} ELSE {})
        ps == {p \in 0..Len(s) : /\ NumberEnd(s, p + 1) \in ends
                                 /\ NumberEnd(s, p + 1) > 0
                                 /\ \A k \in 1..p : s[k] # "\n"}
    IN  IF ps = {} THEN None
        ELSE LET p == CHOOSE x \in ps : \A m \in ps : x <= m
             IN  Some([g1 |-> Sub(s, 1, p), g2 |-> SubSeq(s, p + 1, NumberEnd(s, p + 1))])

Ingredient(name, quantity, unit) == [name |-> name, quantity |-> quantity, unit |-> unit]

\* the branch of the range rule
RangeRule(text) ==
    Bind([m \in {Val(RangeSearch(text, 1))} |->
        LET min_val == FloatOf(m.g1)
            max_val == FloatOf(m.g2)
            sum == FloatAdd(min_val, max_val)
        IN  Ingredient(Strip(RangeSub(text, 1)), Some(<<sum[1], 2 * sum[2]>>), Some(m.g3))])

\* the branch of the number-and-unit rule
SingleRule(text) ==
    LET m == Val(SingleSearch(text))
    IN  Ingredient(Strip(m.g1), Some(FloatOf(m.g2)), Some(m.g3))

\* the branch of the number-only rule
BareRule(text) ==
    LET m == Val(BareSearch(text))
    IN  Ingredient(Strip(m.g1), Some(FloatOf(m.g2)), None)

parse_ingredient_text_single_first(raw) ==
    LET text == RemoveChars(Strip(raw), {FullColon, ":"})
    IN  IF ~IsNone(SingleSearch(text)) THEN SingleRule(text)
        ELSE IF ~IsNone(RangeSearch(text, 1)) THEN RangeRule(text)
        ELSE IF ~IsNone(BareSearch(text)) THEN BareRule(text)
        ELSE Ingredient(text, None, None)

parse_ingredient_text(raw) ==
    LET text == RemoveChars(Strip(raw), {FullColon, ":"})
    IN  IF ~IsNone(RangeSearch(text, 1)) THEN RangeRule(text)
        ELSE IF ~IsNone(SingleSearch(text)) THEN SingleRule(text)
        ELSE IF ~IsNone(BareSearch(text)) THEN BareRule(text)
        ELSE Ingredient(text, None, None)

-----------------------------------------------------------------------------
(* The quantity parser applied to ingredient lines *)

\* the longest name an ingredient line is built from
MaxNameLen == 2

\* characters of names: a letter, a digit, a blank, both colons, a one-letter
\* unit, a CJK unit, a hyphen and a dot
NameAlphabet == {"a", "1", " ", ":", FullColon, "g", "U+4E2A", "-", "."}

StringsUpTo(A, n) == UNION {[1..k -> A] : k \in 0..n}

NumberInputs == {<<"2">>, <<"1", ".", "5">>}

UnitInputs == {<<"g">>, <<"k", "g">>, <<"U+4E2A">>, <<"U+6BEB", "U+5347">>}

\* <name><number><optional space><unit>, and <name><a>-<b><optional space><unit>
QtyInputs ==
    [kind : {"single"}, name : StringsUpTo(NameAlphabet, MaxNameLen),
     a : NumberInputs, b : {<<>>}, sp : {<<>>, <<" ">>}, unit : UnitInputs]
    \cup
    [kind : {"range"}, name : StringsUpTo(NameAlphabet, MaxNameLen),
     a : NumberInputs, b : NumberInputs, sp : {<<>>, <<" ">>}, unit : UnitInputs]

LineOf(p) ==
    IF p.kind = "single" THEN p.name \o p.a \o p.sp \o p.unit
    ELSE p.name \o p.a \o <<"-">> \o p.b \o p.sp \o p.unit

QtyInit ==
    /\ q_parts \in QtyInputs
    /\ q_text = LineOf(q_parts)
    /\ q_out = None

\* the quantity parser's variables while another part of the program runs
QtyIdle ==
    /\ q_parts = [kind |-> "none"]
    /\ q_text = <<>>
    /\ q_out = None

\* one call of parse_ingredient_text on the line
ParseIngredient ==
    /\ IsNone(q_out)
    /\ q_out' = Some(parse_ingredient_text(q_text))
    /\ UNCHANGED <<q_parts, q_text>>
    /\ UNCHANGED <<tvars, dvars, mvars, pvars, svars, ivars, uvars>>

-----------------------------------------------------------------------------
(* _extract_times *)

\* the keys of chinese_numerals, in the order of the character class:
\* the numerals one to ten and "half"
ChineseNumeralChars ==
    <<"U+4E00", "U+4E8C", "U+4E09", "U+56DB", "U+4E94", "U+516D", "U+4E03",
      "U+516B", "U+4E5D", "U+5341", "U+534A">>

ChineseNumeralSet == {ChineseNumeralChars[i] : i \in 1..Len(ChineseNumeralChars)}

\* chinese_numerals[c] as a float: 1..10, and 0.5 for "half"
chinese_numerals(c) ==
    LET i == CHOOSE k \in 1..Len(ChineseNumeralChars) : ChineseNumeralChars[k] = c
    IN  IF i <= 10 THEN <<i, 1>> ELSE <<5, 10>>

\* value in chinese_numerals: the value is one character, a key of the dict
InChineseNumerals(value) == Len(value) = 1 /\ value[1] \in ChineseNumeralSet

Ge == <<"U+4E2A">>

Minutes == <<"U+5206", "U+949F">>

Hours == <<"U+5C0F", "U+65F6">>

Days == <<"U+5929">>

\* (minutes|hours|days), in the order of the alternation
TimeUnits == <<Minutes, Hours, Days>>

LabelPrep == <<"U+9884", "U+4F30", "U+51C6", "U+5907", "U+65F6", "U+95F4">>

LabelCook == <<"U+9884", "U+4F30", "U+70F9", "U+996A", "U+65F6", "U+95F4">>

LabelTotal == <<"U+9884", "U+4F30", "U+603B", "U+65F6", "U+95F4">>

TimeLabels == <<LabelPrep, LabelCook, LabelTotal>>

Complete == <<"U+5B8C", "U+6210">>

Make == <<"U+5236", "U+4F5C">>

\* the compound numerals of the step patterns, in the order of the
\* alternation: 20, 25, 30, 35, 40, 45, 50, 60
StepCompounds ==
    << <<"U+4E8C", "U+5341">>, <<"U+4E8C", "U+5341", "U+4E94">>,
       <<"U+4E09", "U+5341">>, <<"U+4E09", "U+5341", "U+4E94">>,
       <<"U+56DB", "U+5341">>, <<"U+56DB", "U+5341", "U+4E94">>,
       <<"U+4E94", "U+5341">>, <<"U+516D", "U+5341">> >>

\* chinese_to_arabic: a single numeral, one of the compounds 20..50 in steps
\* of five, or None
chinese_to_arabic(value) ==
    IF InChineseNumerals(value) THEN Some(chinese_numerals(value[1]))
    ELSE IF \E k \in 1..7 : StepCompounds[k] = value
         THEN LET k == CHOOSE x \in 1..7 : StepCompounds[x] = value
              IN  Some(<<5 * (k + 3), 1>>)
         ELSE None

\* the index of the first of the literals lits that occurs at i, 0 for none
FirstLitAt(s, i, lits) ==
    LET hits == {k \in 1..Len(lits) : LitAt(s, i, lits[k])}
    IN  IF hits = {} THEN 0 ELSE CHOOSE k \in hits : \A m \in hits : k <= m

\* the end of the greedy run [numerals]+ that starts at i (0 when none does).
\* What follows the run in every pattern starts with no numeral, so only the
\* longest run can be followed by a match of the rest.
NumeralsEnd(s, i) ==
    IF ~(i >= 1 /\ i <= Len(s) /\ s[i] \in ChineseNumeralSet) THEN 0
    ELSE LET stops == {j \in i..Len(s) + 1 : ~(j <= Len(s) /\ s[j] \in ChineseNumeralSet)}
         IN  (CHOOSE j \in stops : \A k \in stops : j <= k) - 1

\* the end of (\d+(?:\.\d+)?|[numerals]+) at i, 0 when it does not match
ValueEnd(s, i) == IF NumberEnd(s, i) > 0 THEN NumberEnd(s, i) ELSE NumeralsEnd(s, i)

\* float(value) of a matched value that is no key of chinese_numerals: a
\* number converts, a run of numerals raises ValueError
FloatOfValue(value) == IF value[1] \in Digits THEN Some(FloatOf(value)) ELSE None

\* the conversion to minutes: hours x60, days x1440
ToMinutes(x, unit) ==
    IF unit = Hours THEN FloatTimes(x, 60)
    ELSE IF unit = Days THEN FloatTimes(x, 1440) ELSE x

\* time_pattern at i:
\*   (label)<fullwidth colon>(value)(?:\s*ge)?\s*(unit)
LabelledAt(s, i) ==
    LET l  == FirstLitAt(s, i, TimeLabels)
        v  == i + Len(TimeLabels[l]) + 1
        e  == ValueEnd(s, v)
        p  == SkipSpaces(s, e + 1)
        r  == IF LitAt(s, p, Ge) THEN SkipSpaces(s, p + 1) ELSE p
        u  == FirstLitAt(s, r, TimeUnits)
    IN  IF l > 0 /\ LitAt(s, i + Len(TimeLabels[l]), <<FullColon>>) /\ e > 0 /\ u > 0
        THEN Some([end |-> r + Len(TimeUnits[u]) - 1, type |-> TimeLabels[l],
                   value |-> SubSeq(s, v, e), unit |-> TimeUnits[u]])
        ELSE None

\* desc_time_pattern at i:  (value)\s*(unit).*?(complete|make)
DescAt(s, i) ==
    LET e == ValueEnd(s, i)
        r == SkipSpaces(s, e + 1)
        u == FirstLitAt(s, r, TimeUnits)
        a == r + Len(TimeUnits[u])
        verbs == {j \in a..Len(s) : /\ FirstLitAt(s, j, <<Complete, Make>>) > 0
                                    /\ \A k \in a..(j - 1) : s[k] # "\n"}
    IN  IF e > 0 /\ u > 0 /\ verbs # {}
        THEN LET j == CHOOSE x \in verbs : \A m \in verbs : x <= m
             IN  Some([end |-> j + 1, value |-> SubSeq(s, i, e), unit |-> TimeUnits[u]])
        ELSE None

\* step pattern 1 at i:  ([numerals]+)\s*(unit)
StepNumeralsAt(s, i) ==
    LET e == NumeralsEnd(s, i)
        r == SkipSpaces(s, e + 1)
        u == FirstLitAt(s, r, TimeUnits)
    IN  IF e > 0 /\ u > 0
        THEN Some([end |-> r + Len(TimeUnits[u]) - 1, value |-> SubSeq(s, i, e),
                   unit |-> TimeUnits[u]])
        ELSE None

\* step pattern 2 at i:  (\d+(?:\.\d+)?)\s*(unit)
StepNumberAt(s, i) ==
    LET e == NumberEnd(s, i)
        r == SkipSpaces(s, e + 1)
        u == FirstLitAt(s, r, TimeUnits)
    IN  IF e > 0 /\ u > 0
        THEN Some([end |-> r + Len(TimeUnits[u]) - 1, value |-> SubSeq(s, i, e),
                   unit |-> TimeUnits[u]])
        ELSE None

\* step pattern 3 at i:  ([numerals]+)ge(unit)
StepNumeralsGeAt(s, i) ==
    LET e == NumeralsEnd(s, i)
        u == FirstLitAt(s, e + 2, TimeUnits)
    IN  IF e > 0 /\ LitAt(s, e + 1, Ge) /\ u > 0
        THEN Some([end |-> e + 1 + Len(TimeUnits[u]), value |-> SubSeq(s, i, e),
                   unit |-> TimeUnits[u]])
        ELSE None

\* step pattern 4 at i:  (\d+(?:\.\d+)?)ge(unit)
StepNumberGeAt(s, i) ==
    LET e == NumberEnd(s, i)
        u == FirstLitAt(s, e + 2, TimeUnits)
    IN  IF e > 0 /\ LitAt(s, e + 1, Ge) /\ u > 0
        THEN Some([end |-> e + 1 + Len(TimeUnits[u]), value |-> SubSeq(s, i, e),
                   unit |-> TimeUnits[u]])
        ELSE None

\* step pattern 5 at i:  (compound)\s*(unit): the first compound, in the
\* order of the alternation, after which the rest matches
StepCompoundAt(s, i) ==
    LET ok(k) == /\ LitAt(s, i, StepCompounds[k])
                 /\ FirstLitAt(s, SkipSpaces(s, i + Len(StepCompounds[k])), TimeUnits) > 0
        hits == {k \in 1..Len(StepCompounds) : ok(k)}
    IN  IF hits = {} THEN None
        ELSE LET k == CHOOSE x \in hits : \A m \in hits : x <= m
                 r == SkipSpaces(s, i + Len(StepCompounds[k]))
                 u == FirstLitAt(s, r, TimeUnits)
             IN  Some([end |-> r + Len(TimeUnits[u]) - 1, value |-> StepCompounds[k],
                       unit |-> TimeUnits[u]])

\* step pattern 6 at i:  (compound)ge(unit)
StepCompoundGeAt(s, i) ==
    LET ok(k) == /\ LitAt(s, i, StepCompounds[k] \o Ge)
                 /\ FirstLitAt(s, i + Len(StepCompounds[k]) + 1, TimeUnits) > 0
        hits == {k \in 1..Len(StepCompounds) : ok(k)}
    IN  IF hits = {} THEN None
        ELSE LET k == CHOOSE x \in hits : \A m \in hits : x <= m
                 u == FirstLitAt(s, i + Len(StepCompounds[k]) + 1, TimeUnits)
             IN  Some([end |-> i + Len(StepCompounds[k]) + Len(TimeUnits[u]),
                       value |-> StepCompounds[k], unit |-> TimeUnits[u]])

-----------------------------------------------------------------------------
(* Patterns of the document extractors *)

\* str.find: the first position from i on where lit occurs, 0 for none
Find(s, lit, i) ==
    LET hits == {k \in i..Len(s) : k >= 1 /\ LitAt(s, k, lit)}
    IN  IF hits = {} THEN 0 ELSE CHOOSE k \in hits : \A h \in hits : k <= h

\* lit in s
Contains(s, lit) == lit = <<>> \/ Find(s, lit, 1) > 0

\* the last position of the line that position q is on
LineEndFrom(s, q) ==
    LET stops == {j \in q..Len(s) + 1 : j = Len(s) + 1 \/ s[j] = "\n"}
    IN  (CHOOSE j \in stops : \A k \in stops : j <= k) - 1

\* ^\s*(mark)\s{minspace,}(.+)$ with re.MULTILINE at i, mark one of marks.
\* \s runs over line breaks; the run after the mark is given back from its
\* end until a character other than a line break is left for (.+).
MarkedItemAt(s, i, marks, minspace) ==
    LET p == SkipSpaces(s, i)
        m == FirstLitAt(s, p, marks)
        a == p + Len(marks[m])
        starts == {q \in (a + minspace)..SkipSpaces(s, a) : q <= Len(s) /\ s[q] # "\n"}
    IN  IF (i = 1 \/ s[i - 1] = "\n") /\ m > 0 /\ starts # {}
        THEN LET q == CHOOSE x \in starts : \A y \in starts : x >= y
             IN  Some([end |-> LineEndFrom(s, q), item |-> SubSeq(s, q, LineEndFrom(s, q))])
        ELSE None

\* !\[([^\]]*)\]\(([^)]+)\) at i
ImageAt(s, i) ==
    LET c == Find(s, <<"]">>, i + 2)
        d == Find(s, <<")">>, c + 2)
    IN  IF LitAt(s, i, <<"!", "[">>) /\ c > 0 /\ LitAt(s, c + 1, <<"(">>) /\ d > c + 2
        THEN Some([end |-> d, alt |-> Sub(s, i + 2, c - 1), path |-> SubSeq(s, c + 2, d - 1)])
        ELSE None

\* !\[.*?\]\((.*?)\) at i: both lazy runs stay on the line
LegacyImageAt(s, i) ==
    LET k == Find(s, <<"]", "(">>, i + 2)
        d == Find(s, <<")">>, k + 2)
    IN  IF /\ LitAt(s, i, <<"!", "[">>)
           /\ k > 0 /\ k + 1 <= LineEndFrom(s, i)
           /\ d > 0 /\ d <= LineEndFrom(s, i)
        THEN Some([end |-> d, path |-> Sub(s, k + 2, d - 1)])
        ELSE None

RECURSIVE FindAll(_, _)
\* re.findall: at[k] is the match of the pattern that starts at position k
\* (None when it does not match there); the matches from position i on,
\* left to right, the search resuming where a match ended
FindAll(at, i) ==
    LET starts == {k \in i..Len(at) : ~IsNone(at[k])}
    IN  IF starts = {} THEN <<>>
        ELSE LET m == Val(at[CHOOSE x \in starts : \A y \in starts : x <= y])
             IN  <<m>> \o FindAll(at, m.end + 1)

\* step_time_matches: the matches of the six patterns, pattern after pattern
StepTimeMatches(s) ==
    FindAll([k \in 1..Len(s) |-> StepNumeralsAt(s, k)], 1)
      \o FindAll([k \in 1..Len(s) |-> StepNumberAt(s, k)], 1)
      \o FindAll([k \in 1..Len(s) |-> StepNumeralsGeAt(s, k)], 1)
      \o FindAll([k \in 1..Len(s) |-> StepNumberGeAt(s, k)], 1)
      \o FindAll([k \in 1..Len(s) |-> StepCompoundAt(s, k)], 1)
      \o FindAll([k \in 1..Len(s) |-> StepCompoundGeAt(s, k)], 1)

\* how _extract_times ends: with the three times, or raising
Times(prep, cook, total) == [raised |-> "", prep |-> prep, cook |-> cook, total |-> total]

Raised(e) == [raised |-> e, prep |-> None, cook |-> None, total |-> None]

\* the value of a labelled field or of the narrative phrase, as a float
\* (None: float(value) raises ValueError)
FieldValue(value) ==
    IF InChineseNumerals(value) THEN Some(chinese_numerals(value[1]))
    ELSE FloatOfValue(value)

RECURSIVE LabelledLoop(_, _, _)
\* the loop over the labelled matches from the k-th on, acc the times so far
LabelledLoop(matches, k, acc) ==
    IF k > Len(matches) THEN acc
    ELSE LET m == matches[k]
             v == FieldValue(m.value)
         IN  IF IsNone(v) THEN Raised("ValueError")
             ELSE LET minutes == Some(FloatInt(ToMinutes(Val(v), m.unit)))
                      next == IF m.type = LabelPrep
                                 THEN [acc EXCEPT !.prep = minutes]
                              ELSE IF m.type = LabelCook
                                 THEN [acc EXCEPT !.cook = minutes]
                              ELSE [acc EXCEPT !.total = minutes]
                  IN  LabelledLoop(matches, k + 1, next)

\* the narrative fallback: taken when no labelled field was found
DescFallback(s, acc) ==
    IF ~(IsNone(acc.prep) /\ IsNone(acc.cook) /\ IsNone(acc.total)) THEN acc
    ELSE Bind([desc_matches \in {FindAll([k \in 1..Len(s) |-> DescAt(s, k)], 1)} |->
             IF desc_matches = <<>> THEN acc
             ELSE LET v == FieldValue(desc_matches[1].value)
                  IN  IF IsNone(v) THEN Raised("ValueError")
                      ELSE [acc EXCEPT !.total =
                               Some(FloatInt(ToMinutes(Val(v), desc_matches[1].unit)))]])

\* the value of a step match (None: float(value) raises ValueError)
StepValue(value) ==
    IF InChineseNumerals(value) THEN Some(chinese_numerals(value[1]))
    ELSE IF ~IsNone(chinese_to_arabic(value)) THEN chinese_to_arabic(value)
    ELSE FloatOfValue(value)

RECURSIVE StepSum(_, _, _)
\* step_total_minutes over the matches from the k-th on (None: raised)
StepSum(matches, k, sum) ==
    IF k > Len(matches) THEN Some(sum)
    ELSE LET v == StepValue(matches[k].value)
         IN  IF IsNone(v) THEN None
             ELSE StepSum(matches, k + 1, FloatAdd(sum, ToMinutes(Val(v), matches[k].unit)))

StepFallbackKeepsCook(s, acc) ==
    IF ~(IsNone(acc.prep) \/ IsNone(acc.cook)) THEN acc
    ELSE Bind([sum \in {StepSum(StepTimeMatches(s), 1, <<0, 1>>)} |->
             IF IsNone(sum) THEN Raised("ValueError")
             ELSE IF Val(sum)[1] > 0 /\ IsNone(acc.total)
                  THEN [acc EXCEPT !.total = Some(FloatInt(Val(sum)))]
                  ELSE acc])

\* the step-derived fallback: taken when prep or cook is still absent
StepFallback(s, acc) ==
    IF ~(IsNone(acc.prep) \/ IsNone(acc.cook)) THEN acc
    ELSE Bind([sum \in {StepSum(StepTimeMatches(s), 1, <<0, 1>>)} |->
             IF IsNone(sum) THEN Raised("ValueError")
             ELSE LET a1 == IF Val(sum)[1] > 0 /\ IsNone(acc.total)
                            THEN [acc EXCEPT !.total = Some(FloatInt(Val(sum)))]
                            ELSE acc
                  IN  IF Val(sum)[1] > 0 /\ IsNone(a1.cook)
                      THEN [a1 EXCEPT !.cook = Some(FloatInt(Val(sum)))]
                      ELSE a1])

_extract_times(content) ==
    Bind([a1 \in {LabelledLoop(FindAll([k \in 1..Len(content) |-> LabelledAt(content, k)], 1),
                                1, Times(None, None, None))} |->
        Bind([a2 \in {IF a1.raised # "" THEN a1 ELSE DescFallback(content, a1)} |->
            IF a2.raised # "" THEN a2 ELSE StepFallback(content, a2)])])

HasDigit(s) == \E i \in 1..Len(s) : s[i] \in Digits

\* what the line was built to mean: the trimmed name, the number (the mean
\* of the bounds for a range) and the unit
Meant(p, name) ==
    Ingredient(name,
               IF p.kind = "single" THEN Some(FloatOf(p.a))
               ELSE LET sum == FloatAdd(FloatOf(p.a), FloatOf(p.b))
                    IN  Some(<<sum[1], 2 * sum[2]>>),
               Some(p.unit))

SameIngredient(x, y) ==
    /\ x.name = y.name
    /\ x.unit = y.unit
    /\ Len(x.quantity) = Len(y.quantity)
    /\ (Len(x.quantity) = 1 => FloatEq(x.quantity[1], y.quantity[1]))

\* the name ends with no digit and no dot, so the line can be read in one
\* way only: the number begins where the name ends
NumberStartsAfterName(p) ==
    p.name = <<>> \/ p.name[Len(p.name)] \notin (Digits \cup {"."})

\* C1 as stated: for every line <name><number><optional space><unit>, whatever
\* the name holds (colons, digits, unit characters), parse_ingredient_text
\* returns exactly (name, number, unit), the name trimmed as in the example.
C1_ExactTripleForEveryName ==
    (q_parts.kind = "single" /\ ~IsNone(q_out) /\ NumberStartsAfterName(q_parts))
        => SameIngredient(Val(q_out), Meant(q_parts, Strip(q_parts.name)))

\* C1 amended: for every line <name><number><optional space><unit> whose name
\* holds no digit, parse_ingredient_text returns the number, the unit, and the
\* name with its colons removed and trimmed; unit characters in the name do
\* no harm.
C1_TripleForDigitFreeName ==
    (q_parts.kind = "single" /\ ~IsNone(q_out) /\ ~HasDigit(q_parts.name))
        => SameIngredient(Val(q_out),
               Meant(q_parts, Strip(RemoveChars(q_parts.name, {FullColon, ":"}))))

\* a parsed line whose name holds a unit character and a colon
C1_Witness ==
    /\ q_parts.kind = "single"
    /\ q_parts.name = <<"g", ":">>
    /\ q_parts.a = <<"1", ".", "5">>
    /\ ~IsNone(q_out)
    /\ Val(q_out).name = <<"g">>

-----------------------------------------------------------------------------
(* The time normalizer applied to document texts *)

\* the most pieces a document text is put together from
MaxSegs == 3

\* the pieces: labelled fields, narrative and step phrases (three hours,
\* an hour and a half, twenty minutes, fifteen minutes), and filler
TimeSegments ==
    { LabelTotal \o <<FullColon, "2", " ">> \o Hours,
      LabelPrep \o <<FullColon, "1", "0">> \o Minutes,
      LabelCook \o <<FullColon, "U+534A">> \o Hours,
      LabelTotal \o <<FullColon, "U+4E8C", "U+5341">> \o Minutes,
      <<"U+4E09">> \o Ge \o Hours,
      <<"1", ".", "5">> \o Hours \o Complete,
      <<"U+4E8C", "U+5341">> \o Minutes,
      <<"U+5341", "U+4E94">> \o Minutes,
      <<"x">>,
      <<"\n">> }

RECURSIVE Flatten(_)
Flatten(segs) == IF segs = <<>> THEN <<>> ELSE Head(segs) \o Flatten(Tail(segs))

TimesInit ==
    /\ t_segs \in StringsUpTo(TimeSegments, MaxSegs)
    /\ t_content = Flatten(t_segs)
    /\ t_out = None

\* the time normalizer's variables while another part of the program runs
TimesIdle ==
    /\ t_segs = <<>>
    /\ t_content = <<>>
    /\ t_out = None

\* one call of _extract_times on the document text
ExtractTimes ==
    /\ IsNone(t_out)
    /\ t_out' = Some(_extract_times(t_content))
    /\ UNCHANGED <<t_segs, t_content>>
    /\ UNCHANGED <<qvars, dvars, mvars, pvars, svars, ivars, uvars>>

-----------------------------------------------------------------------------
(* Strings and paths.  A path is a text with "/" between its components;   *)
(* relative paths are written against the working directory.               *)

StartsWith(s, lit) == LitAt(s, 1, lit)

EndsWith(s, lit) == Len(lit) <= Len(s) /\ LitAt(s, Len(s) - Len(lit) + 1, lit)

RECURSIVE SplitOn(_, _)
\* str.split(sep) for a separator of one character
SplitOn(s, sep) ==
    LET i == Find(s, <<sep>>, 1)
    IN  IF i = 0 THEN <<s>>
        ELSE <<Sub(s, 1, i - 1)>> \o SplitOn(Sub(s, i + 1, Len(s)), sep)

RECURSIVE JoinWith(_, _)
\* sep.join(parts)
JoinWith(parts, sep) ==
    IF parts = <<>> THEN <<>>
    ELSE IF Len(parts) = 1 THEN parts[1]
    ELSE parts[1] \o <<sep>> \o JoinWith(Tail(parts), sep)

RECURSIVE RemoveAll(_, _)
\* str.replace(lit, '')
RemoveAll(s, lit) ==
    LET i == Find(s, lit, 1)
    IN  IF i = 0 THEN s
        ELSE Sub(s, 1, i - 1) \o RemoveAll(Sub(s, i + Len(lit), Len(s)), lit)

\* str.rfind(c) + 1: the last position of the character c, 0 for none
LastIndexOf(s, c) ==
    LET hits == {k \in 1..Len(s) : s[k] = c}
    IN  IF hits = {} THEN 0 ELSE CHOOSE k \in hits : \A h \in hits : k >= h

RECURSIVE Dedup(_)
\* list(dict.fromkeys(xs)): the first occurrence of each element, in order
Dedup(xs) ==
    IF xs = <<>> THEN <<>>
    ELSE LET front == Dedup(SubSeq(xs, 1, Len(xs) - 1))
             last == xs[Len(xs)]
         IN  IF \E k \in 1..Len(front) : front[k] = last THEN front
             ELSE Append(front, last)

\* os.path.dirname
dirname(p) ==
    LET head == Sub(p, 1, LastIndexOf(p, "/"))
        keep == {k \in 1..Len(head) : head[k] # "/"}
    IN  IF keep = {} THEN head
        ELSE Sub(head, 1, CHOOSE k \in keep : \A h \in keep : k >= h)

\* os.path.join(a, b)
join(a, b) ==
    IF StartsWith(b, <<"/">>) THEN b
    ELSE IF a = <<>> \/ a[Len(a)] = "/" THEN a \o b
    ELSE a \o <<"/">> \o b

\* os.path.splitext: <<root, ext>>, the extension from the last dot of the
\* last component on, unless only dots stand before it
splitext(p) ==
    LET sep == LastIndexOf(p, "/")
        dot == LastIndexOf(p, ".")
    IN  IF dot > sep /\ \E k \in (sep + 1)..(dot - 1) : p[k] # "."
        THEN <<Sub(p, 1, dot - 1), Sub(p, dot, Len(p))>>
        ELSE <<p, <<>>>>

RECURSIVE NormParts(_, _)
\* os.path.normpath over the components of a relative path: empty and "."
\* components go, ".." takes the component before it along
NormParts(parts, acc) ==
    IF parts = <<>> THEN acc
    ELSE LET c == Head(parts)
         IN  IF c = <<>> \/ c = <<".">> THEN NormParts(Tail(parts), acc)
             ELSE IF c = <<".", ".">> /\ acc # <<>> /\ acc[Len(acc)] # <<".", ".">>
                  THEN NormParts(Tail(parts), Sub(acc, 1, Len(acc) - 1))
             ELSE NormParts(Tail(parts), Append(acc, c))

\* os.getcwd(), the directory relative paths are written against
getcwd == <<>>

\* os.path.relpath(path, start)
relpath(path, start) ==
    Bind([p \in {NormParts(SplitOn(path, "/"), <<>>)} |->
        Bind([s \in {NormParts(SplitOn(start, "/"), <<>>)} |->
            LET common == {k \in 0..Len(p) : k <= Len(s) /\ \A j \in 1..k : p[j] = s[j]}
                c == CHOOSE k \in common : \A h \in common : k >= h
                rel == [k \in 1..(Len(s) - c) |-> <<".", ".">>] \o Sub(p, c + 1, Len(p))
            IN  IF rel = <<>> THEN <<".">> ELSE JoinWith(rel, "/")])])

-----------------------------------------------------------------------------
(* _extract_with_unstructured (src/project/parse_dishes.py): the fields of *)
(* a document that the claims settled so far are about.                    *)

\* the headings the extractors look for
IngredientsHeading == <<"U+5FC5", "U+5907", "U+539F", "U+6599", "U+548C", "U+5DE5", "U+5177">>

CalculationHeading == <<"U+8BA1", "U+7B97">>

OperationHeading == <<"U+64CD", "U+4F5C">>

StepsHeading == <<"U+6B65", "U+9AA4">>

\* ##\s+(name)\s+([\s\S]*?)(?=##|$) at i, name one of names: the text of the
\* last group.  The lazy group ends before the first "##", or at the end of
\* the text (before a line break that ends the text).
SectionAt(s, i, names) ==
    LET a == SkipSpaces(s, i + 2)
        n == FirstLitAt(s, a, names)
        b == SkipSpaces(s, a + Len(names[n]))
        stops == {k \in b..Len(s) + 1 :
                     \/ LitAt(s, k, <<"#", "#">>)
                     \/ k = Len(s) + 1
                     \/ (k = Len(s) /\ s[k] = "\n")}
    IN  IF LitAt(s, i, <<"#", "#">>) /\ a > i + 2 /\ n > 0 /\ b > a + Len(names[n])
        THEN Some(Sub(s, b, (CHOOSE k \in stops : \A h \in stops : k <= h) - 1))
        ELSE None

\* re.search of the section pattern: the leftmost match
Section(s, names) ==
    LET starts == {i \in 1..Len(s) : ~IsNone(SectionAt(s, i, names))}
    IN  IF starts = {} THEN None
        ELSE SectionAt(s, CHOOSE i \in starts : \A h \in starts : i <= h, names)

\* re.findall of a list pattern: the captured items
Items(marks, minspace, s) ==
    LET ms == FindAll([k \in 1..Len(s) |-> MarkedItemAt(s, k, marks, minspace)], 1)
    IN  [k \in 1..Len(ms) |-> ms[k].item]

\* image_matches with the path each reference is recorded under
images_with_positions(file_path, content) ==
    LET ms == FindAll([k \in 1..Len(content) |-> ImageAt(content, k)], 1)
    IN  [k \in 1..Len(ms) |->
            [alt  |-> ms[k].alt,
             path |-> IF ~StartsWith(ms[k].path, <<"http">>)
                      THEN join(dirname(file_path), ms[k].path)
                      ELSE ms[k].path]]

\* one entry of the ingredients sequence (the notes field follows from quantity)
IngredientEntry(name, quantity, unit, text_quantity) ==
    [name |-> name, quantity |-> quantity, unit |-> unit, text_quantity |-> text_quantity]

\* the entries of the list items of one section, none when the section is absent
SectionIngredients(section) ==
    IF IsNone(section) THEN <<>>
    ELSE LET items == Items(<< <<"-">> >>, 1, Val(section))
         IN  [k \in 1..Len(items) |->
                 Bind([r \in {parse_ingredient_text(items[k])} |->
                     IngredientEntry(r.name, r.quantity, r.unit, items[k])])]

\* the images a step refers to: by alt text or by the file name of the path
StepImages(step, imgs) ==
    LET named == SelectSeq(imgs, LAMBDA img :
                     \/ Contains(step, img.alt)
                     \/ Contains(step, SplitOn(img.path, "/")[Len(SplitOn(img.path, "/"))]))
    IN  [k \in 1..Len(named) |-> named[k].path]

\* the steps sequence made from the found step texts
StepEntries(found, imgs) ==
    [k \in 1..Len(found) |->
        [step |-> k, description |-> Strip(found[k]), images |-> StepImages(found[k], imgs)]]

\* the step texts: headings of the steps text, else its list items, else the
\* headings of the whole document
FoundSteps(content) ==
    Bind([steps_section \in {Section(content, <<OperationHeading, StepsHeading>>)} |->
        LET steps_text == IF IsNone(steps_section) THEN content ELSE Val(steps_section)
            step_titles == Items(<< <<"#", "#", "#">> >>, 1, steps_text)
            list_steps == Items(<< <<"-">>, <<"*">> >>, 0, steps_text)
        IN  IF step_titles # <<>> THEN step_titles
            ELSE IF list_steps # <<>> THEN list_steps
            ELSE Items(<< <<"#", "#", "#">> >>, 1, content)])

MethodSuffix == <<"U+7684", "U+505A", "U+6CD5">>

DifficultyMarker == <<"U+9884", "U+4F30", "U+70F9", "U+996A", "U+96BE", "U+5EA6", FullColon>>

\* the rating glyph of the difficulty line
Star == "U+2605"

AdditionalHeading == <<"U+9644", "U+52A0", "U+5185", "U+5BB9">>

ReferencesHeading == <<"U+53C2", "U+8003", "U+8D44", "U+6599">>

\* re.search(r'^#\s+([^\n]+)', content) without re.MULTILINE: ^ is the start
\* of the text only.  \s+ runs over line breaks and is given back from its
\* end until a character other than a line break is left for the group.
TitleMatch(content) ==
    LET a == SkipSpaces(content, 2)
        gives == {k \in 3..a : k <= Len(content) /\ content[k] # "\n"}
    IN  IF Len(content) >= 1 /\ content[1] = "#" /\ a > 2 /\ gives # {}
        THEN LET g == CHOOSE k \in gives : \A h \in gives : h <= k
             IN  Some(SubSeq(content, g, LineEndFrom(content, g)))
        ELSE None

\* os.path.basename
basename(p) == Sub(p, LastIndexOf(p, "/") + 1, Len(p))

\* extracted_data["title"]: the heading at the start of the text without
\* the suffix, else the file name
Title(file) ==
    LET title_match == TitleMatch(file.content)
    IN  IF ~IsNone(title_match) THEN Strip(RemoveAll(Val(title_match), MethodSuffix))
        ELSE RemoveAll(basename(file.file_path), <<".", "md">>)

\* re.search of the difficulty pattern, marker then stars: the length of the
\* run of stars of the leftmost match
StarRun(content) ==
    LET lit == DifficultyMarker \o <<Star>>
        i == Find(content, lit, 1)
        ends == {k \in (i + Len(lit))..(Len(content) + 1) :
                    k = Len(content) + 1 \/ content[k] # Star}
    IN  IF i = 0 THEN None
        ELSE Some((CHOOSE k \in ends : \A h \in ends : k <= h) - i - Len(lit) + 1)

\* the entries additional_notes gets from the text of a section: the lines
\* that re.findall(r'^[^-\n].*$', text, re.MULTILINE) finds and strip()
\* leaves something of
NoteEntries(section) ==
    IF IsNone(section) THEN <<>>
    ELSE LET lines == SplitOn(Val(section), "\n")
             paragraphs == SelectSeq(lines, LAMBDA l : l # <<>> /\ l[1] # "-" /\ Strip(l) # <<>>)
         IN  [k \in 1..Len(paragraphs) |->
                 [type |-> IF StartsWith(Strip(paragraphs[k]), <<"!", "[">>)
                              /\ Contains(Strip(paragraphs[k]), <<"]", "(">>)
                           THEN "image" ELSE "text",
                  content |-> Strip(paragraphs[k])]]

\* how _extract_with_unstructured ends: with extracted_data, or raising
Extracted(title, difficulty, ingredients, steps, times, images, additional_notes) ==
    [raised |-> "", title |-> title, difficulty |-> difficulty,
     ingredients |-> ingredients, steps |-> steps,
     prep_time |-> times.prep, cook_time |-> times.cook, total_time |-> times.total,
     images |-> images, additional_notes |-> additional_notes]

ExtractRaised(e) ==
    [raised |-> e, title |-> <<>>, difficulty |-> 0, ingredients |-> <<>>, steps |-> <<>>,
     prep_time |-> None, cook_time |-> None, total_time |-> None, images |-> <<>>,
     additional_notes |-> <<>>]

_extract_with_unstructured(file) ==
    Bind([times \in {_extract_times(file.content)} |->
        LET content == file.content
            imgs == images_with_positions(file.file_path, content)
            difficulty_match == StarRun(content)
        IN  IF times.raised # "" THEN ExtractRaised(times.raised)
            ELSE Extracted(
                     Title(file),
                     IF ~IsNone(difficulty_match) THEN Val(difficulty_match) ELSE 0,
                     Flatten([k \in 1..2 |->
                         SectionIngredients(Section(content,
                             <<(<<IngredientsHeading, CalculationHeading>>)[k]>>))]),
                     StepEntries(FoundSteps(content), imgs),
                     times,
                     Dedup([k \in 1..Len(imgs) |-> imgs[k].path]),
                     Flatten([k \in 1..2 |->
                         NoteEntries(Section(content,
                             <<(<<AdditionalHeading, ReferencesHeading>>)[k]>>))]))])

-----------------------------------------------------------------------------
(* parse_markdown_file of src/parse_dishes.py, the earlier version of the  *)
(* extractor: name, description, ingredients, steps and images.            *)

Includes == <<"U+5305", "U+542B">>

\* re.search(r'# (.+)', content) with the suffix replaced: the title
LegacyTitle(content) ==
    LET starts == {i \in 1..Len(content) :
                      /\ LitAt(content, i, <<"#", " ">>)
                      /\ i + 2 <= Len(content)
                      /\ content[i + 2] # "\n"}
    IN  IF starts = {} THEN <<>>
        ELSE LET i == CHOOSE x \in starts : \A h \in starts : x <= h
             IN  RemoveAll(SubSeq(content, i + 2, LineEndFrom(content, i + 2)), MethodSuffix)

RECURSIVE DescriptionLoop(_, _, _, _, _)
\* the loop over the lines that collects description_parts
DescriptionLoop(lines, k, title, in_description, parts) ==
    IF k > Len(lines) THEN parts
    ELSE LET line == lines[k]
         IN  IF StartsWith(line, <<"#", " ">>) /\ Contains(line, title)
             THEN DescriptionLoop(lines, k + 1, title, TRUE, parts)
             ELSE IF StartsWith(line, DifficultyMarker) THEN Append(parts, line)
             ELSE IF in_description
                  THEN DescriptionLoop(lines, k + 1, title, in_description, Append(parts, line))
             ELSE DescriptionLoop(lines, k + 1, title, in_description, parts)

LegacyDescription(content) ==
    Strip(JoinWith(DescriptionLoop(SplitOn(content, "\n"), 1, LegacyTitle(content), FALSE, <<>>), "\n"))

\* re.search(heading + r'\n(.*?)' + closer, content, re.DOTALL): the text
\* between the heading line and the first closer; at_end says whether the
\* end of the text closes the section too (\Z)
LegacySection(content, heading, closer, at_end) ==
    LET lit == <<"#", "#", " ">> \o heading \o <<"\n">>
        starts == {i \in 1..Len(content) :
                      /\ LitAt(content, i, lit)
                      /\ (at_end \/ Find(content, closer, i + Len(lit)) > 0)}
    IN  IF starts = {} THEN None
        ELSE LET b == (CHOOSE i \in starts : \A h \in starts : i <= h) + Len(lit)
                 e == Find(content, closer, b)
             IN  Some(Sub(content, b, IF e > 0 THEN e - 1 ELSE Len(content)))

\* line.strip().startswith(('- ', '* '))
IsListLine(line) ==
    StartsWith(Strip(line), <<"-", " ">>) \/ StartsWith(Strip(line), <<"*", " ">>)

\* lines[j].startswith of one of the four indented list prefixes
IsSubListLine(line) ==
    \/ StartsWith(line, <<" ", " ", "-", " ">>)
    \/ StartsWith(line, <<" ", " ", "*", " ">>)
    \/ StartsWith(line, <<" ", " ", " ", " ", "-", " ">>)
    \/ StartsWith(line, <<" ", " ", " ", " ", "*", " ">>)

\* sub_ingredient of a sub-list line: the prefixes are looked for in the
\* stripped line
SubIngredient(line) ==
    LET sub_line == Strip(line)
    IN  IF StartsWith(sub_line, <<" ", " ", "-", " ">>) \/ StartsWith(sub_line, <<" ", " ", "*", " ">>)
        THEN Strip(Sub(sub_line, 5, Len(sub_line)))
        ELSE IF \/ StartsWith(sub_line, <<" ", " ", " ", " ", "-", " ">>)
                \/ StartsWith(sub_line, <<" ", " ", " ", " ", "*", " ">>)
        THEN Strip(Sub(sub_line, 7, Len(sub_line)))
        ELSE <<>>

RECURSIVE SubListLoop(_, _, _)
\* the inner loop over the sub-list lines that follow a parent item: the
\* entries added and the line the outer loop goes on from
SubListLoop(lines, j, acc) ==
    IF j <= Len(lines) /\ IsSubListLine(lines[j])
    THEN SubListLoop(lines, j + 1,
             IF SubIngredient(lines[j]) # <<>>
             THEN Append(acc, IngredientEntry(SubIngredient(lines[j]), None, None, Strip(lines[j])))
             ELSE acc)
    ELSE [next |-> j, entries |-> acc]

RECURSIVE LegacyIngredientLoop(_, _, _)
\* the loop over the lines of the ingredients section
LegacyIngredientLoop(lines, i, acc) ==
    IF i > Len(lines) THEN acc
    ELSE LET stripped_line == Strip(lines[i])
             ingredient_name == Strip(Sub(stripped_line, 3, Len(stripped_line)))
             entry == IngredientEntry(ingredient_name, None, None, stripped_line)
         IN  IF ~IsListLine(lines[i]) \/ ingredient_name = <<>>
             THEN LegacyIngredientLoop(lines, i + 1, acc)
             ELSE IF EndsWith(ingredient_name, <<FullColon>>) \/ Contains(ingredient_name, Includes)
                  THEN LET sub == SubListLoop(lines, i + 1, Append(acc, entry))
                       IN  LegacyIngredientLoop(lines, sub.next, sub.entries)
             ELSE LegacyIngredientLoop(lines, i + 1, Append(acc, entry))

\* the first word of a text, empty when it has none: str.split()[0]
FirstWord(s) ==
    LET t == Strip(s)
        stops == {j \in 1..Len(t) + 1 : j = Len(t) + 1 \/ t[j] \in Whitespace}
    IN  Sub(t, 1, (CHOOSE j \in stops : \A h \in stops : j <= h) - 1)

\* the entries of the calculation section: named by the first word
LegacyCalculation(section) ==
    IF IsNone(section) THEN <<>>
    ELSE LET lines == SelectSeq(SplitOn(Val(section), "\n"), IsListLine)
             named == SelectSeq(lines, LAMBDA l : FirstWord(Sub(Strip(l), 3, Len(Strip(l)))) # <<>>)
         IN  [k \in 1..Len(named) |->
                 IngredientEntry(FirstWord(Sub(Strip(named[k]), 3, Len(Strip(named[k])))),
                                 None, None, Strip(named[k]))]

\* the steps: one for each list line of the operation section
LegacySteps(section) ==
    IF IsNone(section) THEN <<>>
    ELSE LET lines == SelectSeq(SplitOn(Val(section), "\n"), IsListLine)
         IN  [k \in 1..Len(lines) |->
                 [step |-> k, description |-> Sub(Strip(lines[k]), 3, Len(Strip(lines[k])))]]

\* the images of a text: a reference that starts with "./" is joined to the
\* directory of the file, any other is kept as written
LegacyImages(file_path, text) ==
    LET ms == FindAll([k \in 1..Len(text) |-> LegacyImageAt(text, k)], 1)
    IN  [k \in 1..Len(ms) |->
            IF StartsWith(ms[k].path, <<".", "/">>)
            THEN join(dirname(file_path), Sub(ms[k].path, 3, Len(ms[k].path)))
            ELSE ms[k].path]

\* the sentence additional_notes gets by default, written as one character
Boilerplate == <<"boilerplate">>

\* re.search(heading + r'\n(.*?)(?:\n#|$)', content, re.DOTALL): the text
\* from the heading line to the first line break followed by #, or to the
\* end of the text or the line break that ends it
ReferenceSection(content, heading) ==
    LET lit == heading \o <<"\n">>
        i == Find(content, lit, 1)
        b == i + Len(lit)
        ends == {k \in b..Len(content) + 1 :
                    \/ LitAt(content, k, <<"\n", "#">>)
                    \/ k = Len(content) + 1
                    \/ (k = Len(content) /\ content[k] = "\n")}
    IN  IF i = 0 THEN None
        ELSE Some(Sub(content, b, (CHOOSE k \in ends : \A h \in ends : k <= h) - 1))

\* reference_lines: the stripped lines of the section that are not empty and
\* not headings
ReferenceLines(section) ==
    LET lines == SplitOn(Strip(section), "\n")
        kept == SelectSeq(lines, LAMBDA l : Strip(l) # <<>> /\ ~StartsWith(Strip(l), <<"#", "#">>))
    IN  [k \in 1..Len(kept) |-> Strip(kept[k])]

\* additional_notes: the lines of the first section found of the references
\* and the additional content, the default sentence when neither is found
LegacyNotes(content) ==
    LET references == ReferenceSection(content, <<"#", "#", "#", " ">> \o ReferencesHeading)
        additional == ReferenceSection(content, <<"#", "#", " ">> \o AdditionalHeading)
    IN  IF ~IsNone(references) THEN ReferenceLines(Val(references))
        ELSE IF ~IsNone(additional) THEN ReferenceLines(Val(additional))
        ELSE <<Boilerplate>>

legacy_parse_markdown_file(file) ==
    LET content == file.content
        ingredients_section == LegacySection(content, IngredientsHeading, <<"\n", "#", "#">>, FALSE)
        calculation_section == LegacySection(content, CalculationHeading, <<"\n", "#", "#">>, FALSE)
        steps_section == LegacySection(content, OperationHeading, <<"\n", "#", "#", " ">>, TRUE)
        described == LegacyImages(file.file_path, LegacyDescription(content))
        images == IF described # <<>> THEN described ELSE LegacyImages(file.file_path, content)
        difficulty_match == StarRun(content)
    IN  [name |-> LegacyTitle(content),
         description |-> LegacyDescription(content),
         image_path |-> IF images # <<>> THEN Some(images[1]) ELSE None,
         images |-> images,
         difficulty |-> IF ~IsNone(difficulty_match) THEN Val(difficulty_match) ELSE 0,
         ingredients |->
             (IF IsNone(ingredients_section) THEN <<>>
              ELSE LegacyIngredientLoop(SplitOn(Val(ingredients_section), "\n"), 1, <<>>))
                 \o LegacyCalculation(calculation_section),
         steps |-> LegacySteps(steps_section),
         additional_notes |-> LegacyNotes(content)]

-----------------------------------------------------------------------------
(* src/project/image_handler.py.  What the outside world decides in one    *)
(* call is handed in: fresh is the name uuid.uuid4() draws, transfer_ok    *)
(* says whether the download or copy succeeds, compress_ok whether the     *)
(* recompression does.                                                     *)

\* config.StaticImagesPath; the config module is not among the sources, the
\* value is a directory under the working directory
StaticImagesPath == <<"static", "/", "images">>

\* str.lower() on the extensions that are written in capitals
Lower(s) ==
    [k \in 1..Len(s) |-> CASE s[k] = "PNG" -> "png" [] s[k] = "JPG" -> "jpg" [] OTHER -> s[k]]

\* image_path.startswith(('http://', 'https://'))
IsUrl(p) ==
    \/ StartsWith(p, <<"http", ":", "/", "/">>)
    \/ StartsWith(p, <<"http", "s", ":", "/", "/">>)

\* urlparse(url).path: what follows the host, up to "?" or "#" and without
\* the parameters after a ";" of the last component
UrlPath(url) ==
    LET a == Find(url, <<"/", "/">>, 1) + 2
        hostends == {k \in a..Len(url) + 1 : k = Len(url) + 1 \/ url[k] \in {"/", "?", "#"}}
        b == CHOOSE k \in hostends : \A h \in hostends : k <= h
        ends == {k \in b..Len(url) + 1 : k = Len(url) + 1 \/ url[k] \in {"?", "#"}}
        path == Sub(url, b, (CHOOSE k \in ends : \A h \in ends : k <= h) - 1)
        semi == Find(path, <<";">>, LastIndexOf(path, "/") + 1)
    IN  IF semi > 0 THEN Sub(path, 1, semi - 1) ELSE path

\* the extension the new file gets on a miss
NewExtension(image_path) ==
    LET ext == splitext(image_path)[2]
        url_ext == IF ext = <<>> /\ IsUrl(image_path) THEN splitext(UrlPath(image_path))[2] ELSE ext
    IN  IF url_ext = <<>> THEN <<".", "webp">> ELSE url_ext

\* image_mapping[image_path] = new_path
Recorded(image_mapping, image_path, new_path) ==
    [p \in DOMAIN image_mapping \cup {image_path} |->
        IF p = image_path THEN new_path ELSE image_mapping[p]]

\* get_new_image: the returned path, the mapping afterwards, and whether
\* the transfer failed (which is printed)
get_new_image(image_path, image_mapping, fresh, transfer_ok, compress_ok) ==
    Bind([new_path \in {IF image_path \in DOMAIN image_mapping THEN image_mapping[image_path]
                        ELSE join(StaticImagesPath, <<fresh>> \o NewExtension(image_path))} |->
    LET compressed == IF /\ compress_ok
                         /\ Lower(splitext(new_path)[2]) \in {<<".", "jpg">>, <<".", "jpeg">>, <<".", "png">>}
                      THEN splitext(new_path)[1] \o <<".", "webp">>
                      ELSE new_path
    IN  IF ~transfer_ok
        THEN [path |-> image_path, image_mapping |-> image_mapping, failed |-> TRUE]
        ELSE [path |-> compressed,
              image_mapping |-> Recorded(image_mapping, image_path, compressed),
              failed |-> FALSE]])

\* copy_image_to_recipes: None for an empty path, else config.CDNPath put in
\* front of the path get_new_image returned, made relative to the working
\* directory
copy_image_to_recipes(image_path, image_mapping, cdn, fresh, transfer_ok, compress_ok) ==
    IF image_path = <<>>
    THEN [path |-> None, image_mapping |-> image_mapping, failed |-> FALSE]
    ELSE Bind([got \in {get_new_image(image_path, image_mapping, fresh, transfer_ok, compress_ok)} |->
             [path |-> Some(cdn \o relpath(got.path, getcwd)),
              image_mapping |-> got.image_mapping, failed |-> got.failed]])

-----------------------------------------------------------------------------
(* parse_markdown_file and scan_dishes_directory (src/project/parse_dishes.py) *)

RECURSIVE ProcessLoop(_, _, _, _, _)
\* the loop of _process_images from image k on; acc holds processed_images,
\* the image mapping, and for each image what was asked and what came back
ProcessLoop(images, k, acc, cdn, outcomes) ==
    IF k > Len(images) THEN acc
    ELSE Bind([processed_img \in {copy_image_to_recipes(images[k], acc.image_mapping, cdn,
                                       outcomes[k].fresh, outcomes[k].transfer_ok,
                                       outcomes[k].compress_ok)} |->
             ProcessLoop(images, k + 1,
                 [images |-> IF IsNone(processed_img.path) \/ processed_img.path = Some(<<>>)
                             THEN acc.images
                             ELSE Append(acc.images, Val(processed_img.path)),
                  image_mapping |-> processed_img.image_mapping,
                  transfers |-> Append(acc.transfers,
                                   [image_path |-> images[k], failed |-> processed_img.failed,
                                    returned |-> processed_img.path])],
                 cdn, outcomes)])

_process_images(images, image_mapping, cdn, outcomes) ==
    ProcessLoop(images, 1, [images |-> <<>>, image_mapping |-> image_mapping, transfers |-> <<>>],
                cdn, outcomes)

\* how _extract_dish_id ends: with the identifier of the file, or raising
_extract_dish_id(file_path, uuid_mapping) ==
    LET relative_path == relpath(file_path, getcwd)
    IN  IF relative_path \in DOMAIN uuid_mapping /\ uuid_mapping[relative_path] # <<>>
        THEN [raised |-> "", dish_id |-> uuid_mapping[relative_path]]
        ELSE [raised |-> "ValueError", dish_id |-> <<>>]

\* config.BasePath, the directory source paths are relative to; the config
\* module is not among the sources, the value is the working directory
BasePath == getcwd

\* _build_source_path
_build_source_path(file_path, base_path) == relpath(file_path, base_path)

\* how a call of parse_markdown_file ends: the exception raised ("" for
\* none), the record returned, the image mapping afterwards and the image
\* transfers made
ParseEnd(raised, record, image_mapping, transfers) ==
    [raised |-> raised, record |-> record, image_mapping |-> image_mapping,
     transfers |-> transfers]

\* parse_markdown_file.  After _process_images, line 471 reads image_path,
\* a name that no statement of the function or of the module binds: every
\* call that gets there raises NameError, no later statement runs (the
\* steps, the notes, _extract_dish_id at line 540) and no record is returned.
parse_markdown_file(file, category, uuid_mapping, image_mapping, cdn, outcomes) ==
    Bind([extracted_data \in {_extract_with_unstructured(file)} |->
        IF extracted_data.raised # ""
        THEN ParseEnd(extracted_data.raised, None, image_mapping, <<>>)
        ELSE Bind([processed \in {_process_images(extracted_data.images, image_mapping,
                                                  cdn, outcomes)} |->
                 ParseEnd("NameError", None, processed.image_mapping, processed.transfers)])])

\* the keys of category_map, the names of the category directories
Categories ==
    { <<"aquatic">>, <<"breakfast">>, <<"condiment">>, <<"dessert">>, <<"drink">>,
      <<"meat_dish">>, <<"semi-finished">>, <<"soup">>, <<"staple">>, <<"vegetable_dish">> }

\* category_map: the label of each category directory
category_map ==
    [c \in Categories |->
        CASE c = <<"aquatic">> -> <<"U+6C34", "U+4EA7">>
          [] c = <<"breakfast">> -> <<"U+65E9", "U+9910">>
          [] c = <<"condiment">> -> <<"U+4F50", "U+6599">>
          [] c = <<"dessert">> -> <<"U+751C", "U+54C1">>
          [] c = <<"drink">> -> <<"U+996E", "U+54C1">>
          [] c = <<"meat_dish">> -> <<"U+8089", "U+98DF">>
          [] c = <<"semi-finished">> -> <<"U+534A", "U+6210", "U+54C1">>
          [] c = <<"soup">> -> <<"U+6C64", "U+7C7B">>
          [] c = <<"staple">> -> <<"U+4E3B", "U+98DF">>
          [] c = <<"vegetable_dish">> -> <<"U+7D20", "U+83DC">>]

\* category of a directory of the walk: the first component of its path
\* relative to the scanned directory
CategoryOf(root, directory) ==
    LET path_parts == SplitOn(relpath(root, directory), "/")
    IN  IF path_parts[1] # <<>> THEN path_parts[1] ELSE <<"unknown">>

\* the test of line 591 that lets a directory through, made to answer yes
\* for every directory
InCategoriesAlways(category, by_category) == TRUE

\* category in dishes_by_category
InCategories(category, by_category) == category \in DOMAIN by_category

\* the file names scan_dishes_directory takes for documents
IsMarkdown(name) == EndsWith(name, <<".", "md">>)

-----------------------------------------------------------------------------
(* The extractors applied to documents *)

\* the most pieces a document is put together from
MaxPieces == 3

\* the path of the document, relative to the working directory
DocPath == <<"dishes", "/", "soup", "/", "d", ".", "md">>

TitleLine == <<"#", " ", "x", "\n">>

IngredientsLine == <<"#", "#", " ">> \o IngredientsHeading \o <<"\n">>

CalculationLine == <<"#", "#", " ">> \o CalculationHeading \o <<"\n">>

OperationLine == <<"#", "#", " ">> \o OperationHeading \o <<"\n">>

LocalImageLine == <<"!", "[", "i", "]", "(", ".", "/", "p", ".", "png", ")", "\n">>

UrlImageLine == <<"!", "[", "]", "(", "http", ":", "/", "/", "k", "/", "u", ")", "\n">>

\* the pieces: a title, section headings, list items, images, a step heading
DocPieces ==
    { TitleLine, IngredientsLine, CalculationLine, OperationLine,
      <<"-", " ", "a", " ", "2", "g", "\n">>,
      <<"-", " ", "a", "\n">>,
      <<"*", " ", "a", "\n">>,
      LocalImageLine, UrlImageLine,
      <<"#", "#", "#", " ", "i", "\n">> }

File(file_path, content) == [file_path |-> file_path, content |-> content]

DocInit ==
    /\ d_pieces \in StringsUpTo(DocPieces, MaxPieces)
    /\ d_file = File(DocPath, Flatten(d_pieces))
    /\ d_extracted = None
    /\ d_legacy = None

\* the extractors' variables while another part of the program runs
DocIdle ==
    /\ d_pieces = <<>>
    /\ d_file = File(<<>>, <<>>)
    /\ d_extracted = None
    /\ d_legacy = None

\* one call of _extract_with_unstructured on the document
ExtractProject ==
    /\ IsNone(d_extracted)
    /\ d_extracted' = Some(_extract_with_unstructured(d_file))
    /\ UNCHANGED <<d_pieces, d_file, d_legacy>>
    /\ UNCHANGED <<qvars, tvars, mvars, pvars, svars, ivars, uvars>>

\* one call of parse_markdown_file of src/parse_dishes.py on the document
ParseLegacy ==
    /\ IsNone(d_legacy)
    /\ d_legacy' = Some(legacy_parse_markdown_file(d_file))
    /\ UNCHANGED <<d_pieces, d_file, d_extracted>>
    /\ UNCHANGED <<qvars, tvars, mvars, pvars, svars, ivars, uvars>>

-----------------------------------------------------------------------------
(* Documents laid out as the recipes are: an optional line before the      *)
(* title, the title, the difficulty line, the ingredients with a parent    *)
(* item and its child, and the notes.                                      *)

\* the longest run of stars of a difficulty line
MaxStars == 6

DifficultyLine(n) == DifficultyMarker \o [k \in 1..n |-> Star] \o <<"\n">>

SuffixedTitleLine == <<"#", " ", "x">> \o MethodSuffix \o <<"\n">>

\* a parent item that ends with the colon, and one that holds the word
ColonParentLine == <<"-", " ", "p", FullColon, "\n">>

IncludesParentLine == <<"-", " ">> \o Includes \o <<"\n">>

DashChildLine == <<" ", " ", "-", " ", "a", "\n">>

StarChildLine == <<" ", " ", "*", " ", "a", "\n">>

AdditionalLine == <<"#", "#", " ">> \o AdditionalHeading \o <<"\n">>

ReferencesLine == <<"#", "#", "#", " ">> \o ReferencesHeading \o <<"\n">>

NoteLine == <<"n", "\n">>

Leads == { <<>>, LocalImageLine }

Titles == { <<>>, TitleLine, SuffixedTitleLine }

Difficulties == { <<>> } \cup { DifficultyLine(n) : n \in {0, 1, MaxStars} }

Bodies ==
    { <<>>,
      IngredientsLine \o ColonParentLine \o DashChildLine \o OperationLine,
      IngredientsLine \o IncludesParentLine \o StarChildLine \o OperationLine }

Notes ==
    { <<>>, AdditionalLine, AdditionalLine \o NoteLine,
      ReferencesLine, ReferencesLine \o NoteLine, Boilerplate \o <<"\n">> }

RecordInit ==
    /\ d_pieces \in {<<l, t, d, b, n>> :
                        l \in Leads, t \in Titles, d \in Difficulties, b \in Bodies, n \in Notes}
    /\ d_file = File(DocPath, Flatten(d_pieces))
    /\ d_extracted = None
    /\ d_legacy = None

-----------------------------------------------------------------------------
(* The mappings, the configuration and the outside world *)

\* the names uuid.uuid4() can draw
MaxUuid == 2

Uuids == {"uuid-" \o ToString(k) : k \in 1..MaxUuid}

\* the values config.CDNPath is given: none, and a prefix
CDNPaths == { <<>>, <<"cdn", "/">> }

\* what the outside world decides in one call of copy_image_to_recipes
Outcomes == [fresh : Uuids \cup {""}, transfer_ok : BOOLEAN, compress_ok : BOOLEAN]

\* the outcomes of the calls for images: a name is drawn for an image that
\* is not in the mapping, no name is drawn twice, and the recompression is
\* tried after a transfer that succeeded only
OutcomesFor(images, mapping, used) ==
    {o \in [1..Len(images) -> Outcomes] :
        /\ \A k \in 1..Len(images) :
              /\ IF images[k] \in DOMAIN mapping THEN o[k].fresh = ""
                 ELSE o[k].fresh \in Uuids \ used
              /\ o[k].compress_ok => o[k].transfer_ok
        /\ \A j, k \in 1..Len(images) :
              (j # k /\ o[j].fresh # "") => o[j].fresh # o[k].fresh}

Draws(outcomes) == {outcomes[k].fresh : k \in 1..Len(outcomes)} \ {""}

\* an image mapping left by an earlier run: the local image of the
\* documents, recompressed
KnownImage == join(dirname(DocPath), <<".", "/", "p", ".", "png">>)

StartMappings == { <<>>, [p \in {KnownImage} |-> join(StaticImagesPath, <<"uuid-0", ".", "webp">>)] }

\* the mappings and the configuration while another part of the program runs
MappingsIdle ==
    /\ dishes_uuid_mapping = <<>>
    /\ images_mapping = <<>>
    /\ CDNPath = <<>>
    /\ drawn = {}

-----------------------------------------------------------------------------
(* get_new_image called again and again on one image mapping *)

\* the most calls of get_new_image
MaxCalls == 3

\* an image on the network, its address without extension
UrlImage == <<"http", ":", "/", "/", "k", "/", "u">>

ImageReferences == { KnownImage, UrlImage }

\* what lines 50-95 of get_new_image do once new_path is chosen: the
\* download or the copy, and after a transfer that succeeded the
\* recompression.  Nothing of it depends on the test of line 29.
Performed(image_path, transfer_ok) ==
    <<IF IsUrl(image_path) THEN "requests.get" ELSE "shutil.copy2">>
        \o (IF transfer_ok THEN <<"Image.open">> ELSE <<>>)

ImagesInit ==
    /\ images_mapping \in StartMappings
    /\ dishes_uuid_mapping = <<>>
    /\ CDNPath = <<>>
    /\ drawn = {}
    /\ i_calls = <<>>

\* the image handler's log while another part of the program runs
ImagesIdle == i_calls = <<>>

\* one call of get_new_image
GetNewImage ==
    \E image_path \in ImageReferences, fresh \in Uuids \cup {""},
       transfer_ok \in BOOLEAN, compress_ok \in BOOLEAN :
        /\ Len(i_calls) < MaxCalls
        /\ IF image_path \in DOMAIN images_mapping THEN fresh = "" ELSE fresh \in Uuids \ drawn
        /\ compress_ok => transfer_ok
        /\ \E got \in {get_new_image(image_path, images_mapping, fresh, transfer_ok, compress_ok)} :
              /\ images_mapping' = got.image_mapping
              /\ i_calls' = Append(i_calls,
                     [image_path |-> image_path,
                      known |-> image_path \in DOMAIN images_mapping,
                      assigned |-> IF image_path \in DOMAIN images_mapping
                                   THEN images_mapping[image_path] ELSE <<>>,
                      performed |-> Performed(image_path, transfer_ok),
                      path |-> got.path])
        /\ drawn' = drawn \cup ({fresh} \ {""})
        /\ UNCHANGED <<dishes_uuid_mapping, CDNPath>>
        /\ UNCHANGED <<qvars, tvars, dvars, pvars, svars, uvars>>

-----------------------------------------------------------------------------
(* parse_markdown_file run twice on one document *)

\* the documents: steps only, a local image, an image on the network, and
\* a labelled time that _extract_times raises on
ParseContents ==
    { TitleLine \o OperationLine \o <<"-", " ", "a", "\n">>,
      TitleLine \o LocalImageLine,
      TitleLine \o UrlImageLine,
      LabelTotal \o <<FullColon, "U+4E8C", "U+5341">> \o Minutes \o <<"\n">> }

ParseInit ==
    /\ p_file \in {File(DocPath, c) : c \in ParseContents}
    /\ dishes_uuid_mapping \in { <<>>, [p \in {DocPath} |-> <<"id-1">>] }
    /\ images_mapping \in StartMappings
    /\ CDNPath \in CDNPaths
    /\ drawn = {}
    /\ p_first = None
    /\ p_second = None

ParseIdle ==
    /\ p_file = File(<<>>, <<>>)
    /\ p_first = None
    /\ p_second = None

\* the images of a document that _process_images is called with:
\* extracted_data["images"], none when _extract_times raised
ImagesOf(file) ==
    IF _extract_times(file.content).raised # "" THEN <<>>
    ELSE Bind([imgs \in {images_with_positions(file.file_path, file.content)} |->
             Dedup([k \in 1..Len(imgs) |-> imgs[k].path])])

\* the first run of parse_markdown_file on the document
ParseFirst ==
    /\ IsNone(p_first)
    /\ \E outcomes \in OutcomesFor(ImagesOf(p_file), images_mapping, drawn) :
          /\ p_first' = Some(parse_markdown_file(p_file, category_map[<<"soup">>],
                                 dishes_uuid_mapping, images_mapping, CDNPath, outcomes))
          /\ drawn' = drawn \cup Draws(outcomes)
    /\ UNCHANGED <<p_file, p_second, dishes_uuid_mapping, images_mapping, CDNPath>>
    /\ UNCHANGED <<qvars, tvars, dvars, svars, ivars, uvars>>

\* the second run, on the same document and from the same two mappings
ParseSecond ==
    /\ ~IsNone(p_first)
    /\ IsNone(p_second)
    /\ \E outcomes \in OutcomesFor(ImagesOf(p_file), images_mapping, drawn) :
          /\ p_second' = Some(parse_markdown_file(p_file, category_map[<<"soup">>],
                                  dishes_uuid_mapping, images_mapping, CDNPath, outcomes))
          /\ drawn' = drawn \cup Draws(outcomes)
    /\ UNCHANGED <<p_file, p_first, dishes_uuid_mapping, images_mapping, CDNPath>>
    /\ UNCHANGED <<qvars, tvars, dvars, svars, ivars, uvars>>

-----------------------------------------------------------------------------
(* scan_dishes_directory over a directory tree *)

\* the most directories below the scanned one
MaxDirs == 2

\* config.DishesPath, the scanned directory
DishesPath == <<"dishes">>

\* the files: a document with an image, a document without, and a file
\* that is no document
ImageDoc == [name |-> <<"d", ".", "md">>, content |-> TitleLine \o LocalImageLine]

PlainDoc == [name |-> <<"e", ".", "md">>,
             content |-> TitleLine \o OperationLine \o <<"-", " ", "a", "\n">>]

OtherFile == [name |-> <<"n", ".", "txt">>, content |-> <<>>]

\* what a directory below the scanned one holds
FileLists == { <<>>, <<ImageDoc, OtherFile>>, <<PlainDoc>> }

\* the directories below the scanned one: a category, a directory in it,
\* and a directory that is no category
SubDirectories ==
    { <<"dishes", "/", "soup">>, <<"dishes", "/", "soup", "/", "sub">>,
      <<"dishes", "/", "other">> }

Directory(root, files) == [root |-> root, files |-> files]

\* the walks, top-down: the scanned directory first, then directories below
\* it, no directory twice, a directory right behind the one it is in
Walks ==
    { <<Directory(DishesPath, top)>> \o below :
        top \in {<<>>, <<PlainDoc>>},
        below \in {w \in StringsUpTo({Directory(r, f) : r \in SubDirectories, f \in FileLists}, MaxDirs) :
                      /\ \A j, k \in 1..Len(w) : j # k => w[j].root # w[k].root
                      /\ \A k \in 1..Len(w) :
                            dirname(w[k].root) # DishesPath
                                => k > 1 /\ w[k - 1].root = dirname(w[k].root)} }

\* the path of file f of directory d of the walk
FilePathOf(walk, d, f) == join(walk[d].root, walk[d].files[f].name)

\* the documents of the walk, each by directory and file
DocumentsOf(walk) ==
    {df \in UNION {{<<d, f>> : f \in 1..Len(walk[d].files)} : d \in 1..Len(walk)} :
        IsMarkdown(walk[df[1]].files[df[2]].name)}

ScanInit ==
    /\ s_walk \in Walks
    /\ \E unmapped \in {{}, {PlainDoc.name}} :
          dishes_uuid_mapping =
              [p \in {relpath(FilePathOf(s_walk, df[1], df[2]), getcwd) :
                         df \in {x \in DocumentsOf(s_walk) :
                                    s_walk[x[1]].files[x[2]].name \notin unmapped}}
                 |-> <<"id", ":">> \o p]
    /\ images_mapping = <<>>
    /\ CDNPath \in CDNPaths
    /\ drawn = {}
    /\ s_dir = 1
    /\ s_file = 1
    /\ dishes_by_category = [c \in Categories |-> <<>>]
    /\ s_diagnostics = <<>>
    /\ s_done = FALSE

ScanIdle ==
    /\ s_walk = <<>>
    /\ s_dir = 1
    /\ s_file = 1
    /\ dishes_by_category = <<>>
    /\ s_diagnostics = <<>>
    /\ s_done = TRUE

\* the category of the directory the scan is at
category == CategoryOf(s_walk[s_dir].root, DishesPath)

\* a directory whose category is not in dishes_by_category is passed over
\* with all its files, and nothing is printed
SkipDirectory ==
    /\ ~s_done
    /\ s_dir <= Len(s_walk)
    /\ ~InCategories(category, dishes_by_category)
    /\ s_dir' = s_dir + 1
    /\ s_file' = 1
    /\ UNCHANGED <<s_walk, dishes_by_category, s_diagnostics, s_done>>
    /\ UNCHANGED <<qvars, tvars, dvars, mvars, pvars, ivars, uvars>>

\* a file whose name does not end in ".md" is passed over
SkipFile ==
    /\ ~s_done
    /\ s_dir <= Len(s_walk)
    /\ InCategories(category, dishes_by_category)
    /\ s_file <= Len(s_walk[s_dir].files)
    /\ ~IsMarkdown(s_walk[s_dir].files[s_file].name)
    /\ s_file' = s_file + 1
    /\ UNCHANGED <<s_walk, s_dir, dishes_by_category, s_diagnostics, s_done>>
    /\ UNCHANGED <<qvars, tvars, dvars, mvars, pvars, ivars, uvars>>

\* a document is parsed inside try: its record is appended to the
\* collection of its category, or the exception is printed
ParseFile ==
    /\ ~s_done
    /\ s_dir <= Len(s_walk)
    /\ InCategories(category, dishes_by_category)
    /\ s_file <= Len(s_walk[s_dir].files)
    /\ IsMarkdown(s_walk[s_dir].files[s_file].name)
    /\ LET file_path == FilePathOf(s_walk, s_dir, s_file)
           file == File(file_path, s_walk[s_dir].files[s_file].content)
       IN  \E outcomes \in OutcomesFor(ImagesOf(file), images_mapping, drawn) :
              \E ended \in {IF category \in DOMAIN category_map
                             THEN parse_markdown_file(file, category_map[category],
                                      dishes_uuid_mapping, images_mapping, CDNPath, outcomes)
                             ELSE ParseEnd("KeyError", None, images_mapping, <<>>)} :
                  /\ images_mapping' = ended.image_mapping
                  /\ drawn' = drawn \cup Draws(outcomes)
                  /\ IF ended.raised = ""
                     THEN /\ dishes_by_category' =
                                 [dishes_by_category EXCEPT ![category] = Append(@, Val(ended.record))]
                          /\ UNCHANGED s_diagnostics
                     ELSE /\ s_diagnostics' =
                                 Append(s_diagnostics, [file_path |-> file_path, error |-> ended.raised])
                          /\ UNCHANGED dishes_by_category
    /\ s_file' = s_file + 1
    /\ UNCHANGED <<s_walk, s_dir, s_done, dishes_uuid_mapping, CDNPath>>
    /\ UNCHANGED <<qvars, tvars, dvars, pvars, ivars, uvars>>

\* the files of the directory are done: the walk goes on
NextDirectory ==
    /\ ~s_done
    /\ s_dir <= Len(s_walk)
    /\ InCategories(category, dishes_by_category)
    /\ s_file > Len(s_walk[s_dir].files)
    /\ s_dir' = s_dir + 1
    /\ s_file' = 1
    /\ UNCHANGED <<s_walk, dishes_by_category, s_diagnostics, s_done>>
    /\ UNCHANGED <<qvars, tvars, dvars, mvars, pvars, ivars, uvars>>

\* the walk is over: scan_dishes_directory returns dishes_by_category
ScanReturn ==
    /\ ~s_done
    /\ s_dir > Len(s_walk)
    /\ s_done' = TRUE
    /\ UNCHANGED <<s_walk, s_dir, s_file, dishes_by_category, s_diagnostics>>
    /\ UNCHANGED <<qvars, tvars, dvars, mvars, pvars, ivars, uvars>>

-----------------------------------------------------------------------------
(* The identifier generator: generate_uuid_for_md_files of                 *)
(* src/project/UuidCreate.py (the script) and of src/project/uuid_create.py *)
(* (the module main.py imports), and the lookups of the assembler in the   *)
(* mapping they leave in the file.  A mapping is a function from keys to   *)
(* values, both strings; an identifier is a string of one character.       *)

\* the most runs of the generator
MaxRuns == 2

\* the identifiers uuid.uuid4() can draw
MaxIds == 4

Identifiers == {<<"id-" \o ToString(k)>> : k \in 1..MaxIds}

\* how a run ends: what was raised, what was returned, and the mapping in
\* the file afterwards
GeneratorEnd(raised, returned, written) ==
    [raised |-> raised, returned |-> returned, written |-> written]

\* the mapping read at the start: the file's, or {} when there is no file
LoadedMapping(file) == IF IsNone(file) THEN <<>> ELSE Val(file)

RECURSIVE UuidLoop(_, _, _, _)
\* the loop over the walked files from the k-th on: a document whose
\* relative path is no key of the mapping gets the next identifier drawn,
\* stored as uuid_mapping[new_uuid] = relative_path
UuidLoop(files, k, uuid_mapping, draws) ==
    IF k > Len(files) THEN uuid_mapping
    ELSE IF ~IsMarkdown(files[k]) THEN UuidLoop(files, k + 1, uuid_mapping, draws)
    ELSE LET relative_path == relpath(files[k], getcwd)
         IN  IF relative_path \notin DOMAIN uuid_mapping
             THEN UuidLoop(files, k + 1, Recorded(uuid_mapping, Head(draws), relative_path), Tail(draws))
             ELSE UuidLoop(files, k + 1, uuid_mapping, draws)

\* the identifiers a run draws: one for each document whose relative path
\* is no key of the mapping
DrawsNeeded(files, uuid_mapping) ==
    Cardinality({k \in 1..Len(files) :
                    IsMarkdown(files[k]) /\ relpath(files[k], getcwd) \notin DOMAIN uuid_mapping})

\* generate_uuid_for_md_files(path) of UuidCreate.py: the mapping is written
\* to the file, nothing is returned
script_generate_uuid_for_md_files(files, file, draws) ==
    GeneratorEnd("", None, Some(UuidLoop(files, 1, LoadedMapping(file), draws)))

\* generate_uuid_for_md_files(directories, uuid_file_path) of uuid_create.py
\* called with the positional arguments args.  Line 24 reads the name path,
\* which the function of two parameters does not bind: the first document
\* of the walk raises NameError, before anything is written.
generate_uuid_for_md_files(args, files, file) ==
    IF Len(args) # 2 THEN GeneratorEnd("TypeError", None, file)
    ELSE IF \E k \in 1..Len(files) : IsMarkdown(files[k])
         THEN GeneratorEnd("NameError", None, file)
    ELSE GeneratorEnd("", Some(LoadedMapping(file)), Some(LoadedMapping(file)))

\* the arguments of the call of main.py line 36: config.BasePath,
\* [config.DishesPath], config.DischessUuidFile
MainArguments == <<BasePath, <<DishesPath>>, <<"Uuid", "/", "Uuid", ".", "json">>>>

\* the files a walk of the directories yields
SecondDocPath == <<"dishes", "/", "soup", "/", "e", ".", "md">>

Trees ==
    { <<>>, <<DocPath>>, <<DocPath, SecondDocPath>>, <<KnownImage>>, <<KnownImage, DocPath>> }

\* the file at the start: none, an empty mapping, and a mapping from the
\* relative path of a document to its identifier
UuidFiles ==
    { None, Some(<<>>), Some([p \in {DocPath} |-> <<"id-0">>]) }

UuidInit ==
    /\ u_tree \in Trees
    /\ uuid_file \in UuidFiles
    /\ u_drawn = {}
    /\ u_runs = <<>>
    /\ u_lookups = {}

\* the identifier generator's variables while another part of the program runs
UuidIdle ==
    /\ u_tree = <<>>
    /\ uuid_file = None
    /\ u_drawn = {}
    /\ u_runs = <<>>
    /\ u_lookups = {}

\* what u_runs keeps of a run
RunOf(by, before, end) ==
    [by |-> by, raised |-> end.raised, returned |-> end.returned,
     before |-> before, after |-> end.written]

\* one run of UuidCreate.py
RunScript ==
    /\ Len(u_runs) < MaxRuns
    /\ \E draws \in [1..DrawsNeeded(u_tree, LoadedMapping(uuid_file)) -> Identifiers \ u_drawn] :
          /\ \A j, k \in DOMAIN draws : j # k => draws[j] # draws[k]
          /\ \E end \in {script_generate_uuid_for_md_files(u_tree, uuid_file, draws)} :
                /\ uuid_file' = end.written
                /\ u_runs' = Append(u_runs, RunOf("UuidCreate", uuid_file, end))
          /\ u_drawn' = u_drawn \cup {draws[k] : k \in DOMAIN draws}
    /\ UNCHANGED <<u_tree, u_lookups>>
    /\ UNCHANGED <<qvars, tvars, dvars, mvars, pvars, svars, ivars>>

\* one call of generate_uuid_for_md_files of uuid_create.py with the two
\* arguments of its signature
RunGenerate ==
    /\ Len(u_runs) < MaxRuns
    /\ \E end \in {generate_uuid_for_md_files(<<<<DishesPath>>, MainArguments[3]>>, u_tree, uuid_file)} :
          /\ uuid_file' = end.written
          /\ u_runs' = Append(u_runs, RunOf("uuid_create", uuid_file, end))
    /\ UNCHANGED <<u_tree, u_drawn, u_lookups>>
    /\ UNCHANGED <<qvars, tvars, dvars, mvars, pvars, svars, ivars>>

\* main.py up to line 36: the call of generate_uuid_for_md_files
RunMain ==
    /\ Len(u_runs) < MaxRuns
    /\ \E end \in {generate_uuid_for_md_files(MainArguments, u_tree, uuid_file)} :
          /\ uuid_file' = end.written
          /\ u_runs' = Append(u_runs, RunOf("main", uuid_file, end))
    /\ UNCHANGED <<u_tree, u_drawn, u_lookups>>
    /\ UNCHANGED <<qvars, tvars, dvars, mvars, pvars, svars, ivars>>

\* the assembler looks a document the generator visited up in the mapping
\* the generator left
Lookup ==
    /\ \E k \in 1..Len(u_runs) : u_runs[k].raised = ""
    /\ ~IsNone(uuid_file)
    /\ \E k \in 1..Len(u_tree) :
          /\ IsMarkdown(u_tree[k])
          /\ u_lookups' = u_lookups \cup
                 {[file_path |-> u_tree[k], raised |-> _extract_dish_id(u_tree[k], Val(uuid_file)).raised]}
    /\ UNCHANGED <<u_tree, uuid_file, u_drawn, u_runs>>
    /\ UNCHANGED <<qvars, tvars, dvars, mvars, pvars, svars, ivars>>

-----------------------------------------------------------------------------
(* Specifications *)

\* parse_ingredient_text over ingredient lines
InitQty == QtyInit /\ TimesIdle /\ DocIdle /\ MappingsIdle /\ ParseIdle /\ ScanIdle /\ ImagesIdle /\ UuidIdle

NextQty == ParseIngredient

SpecQty == InitQty /\ [][NextQty]_vars

\* _extract_times over document texts
InitTimes == TimesInit /\ QtyIdle /\ DocIdle /\ MappingsIdle /\ ParseIdle /\ ScanIdle /\ ImagesIdle /\ UuidIdle

NextTimes == ExtractTimes

SpecTimes == InitTimes /\ [][NextTimes]_vars

\* the two extractors over documents
InitDoc == DocInit /\ QtyIdle /\ TimesIdle /\ MappingsIdle /\ ParseIdle /\ ScanIdle /\ ImagesIdle /\ UuidIdle

NextDoc == ExtractProject \/ ParseLegacy

SpecDoc == InitDoc /\ [][NextDoc]_vars

InitRecord == RecordInit /\ QtyIdle /\ TimesIdle /\ MappingsIdle /\ ParseIdle /\ ScanIdle /\ ImagesIdle /\ UuidIdle

SpecRecord == InitRecord /\ [][NextDoc]_vars

\* parse_markdown_file twice on one document
InitParse == ParseInit /\ QtyIdle /\ TimesIdle /\ DocIdle /\ ScanIdle /\ ImagesIdle /\ UuidIdle

NextParse == ParseFirst \/ ParseSecond

SpecParse == InitParse /\ [][NextParse]_vars

\* scan_dishes_directory over directory trees
InitScan == ScanInit /\ QtyIdle /\ TimesIdle /\ DocIdle /\ ParseIdle /\ ImagesIdle /\ UuidIdle

NextScan == SkipDirectory \/ SkipFile \/ ParseFile \/ NextDirectory \/ ScanReturn

SpecScan == InitScan /\ [][NextScan]_vars

InitImages == ImagesInit /\ QtyIdle /\ TimesIdle /\ DocIdle /\ ParseIdle /\ ScanIdle /\ UuidIdle

NextImages == GetNewImage

SpecImages == InitImages /\ [][NextImages]_vars

InitUuid == UuidInit /\ QtyIdle /\ TimesIdle /\ DocIdle /\ MappingsIdle /\ ParseIdle /\ ScanIdle /\ ImagesIdle

NextUuid == RunScript \/ RunGenerate \/ RunMain \/ Lookup

SpecUuid == InitUuid /\ [][NextUuid]_vars

-----------------------------------------------------------------------------
(* C5 *)

\* the labelled field "estimated total time: 2 hours"
TotalTwoHours == LabelTotal \o <<FullColon, "2", " ">> \o Hours

\* the field is the only time mention of the text: no digit and no numeral
\* stands outside it
OnlyTotalTwoHours(content) ==
    \E i \in 1..Len(content) :
        /\ LitAt(content, i, TotalTwoHours)
        /\ \A j \in 1..Len(content) :
              (j < i \/ j >= i + Len(TotalTwoHours))
                  => content[j] \notin (Digits \cup ChineseNumeralSet)

\* C5 as stated: for a document whose only time mention is the labelled field
\* "estimated total time: 2 hours", _extract_times returns total 120 with
\* prep absent and cook absent.
C5_TotalOnlyCookAbsent ==
    (~IsNone(t_out) /\ OnlyTotalTwoHours(t_content))
        => Val(t_out) = Times(None, None, Some(120))

\* C5 amended: for such a document _extract_times returns total 120 and prep
\* absent, and cook is not absent: the step-derived fallback finds the same
\* "2 hours" and sets cook to 120.
C5_TotalAndCookFromFallback ==
    (~IsNone(t_out) /\ OnlyTotalTwoHours(t_content))
        => Val(t_out) = Times(None, Some(120), Some(120))

\* the field between a line of text and a line break, normalized
C5_Witness ==
    /\ t_segs = << <<"x">>, <<"\n">>, TotalTwoHours >>
    /\ OnlyTotalTwoHours(t_content)
    /\ ~IsNone(t_out)
    /\ Val(t_out).total = Some(120)
    /\ Val(t_out).cook = Some(120)

-----------------------------------------------------------------------------
(* C4, C6: the extractors over documents (SpecDoc) *)

\* the steps sequences produced for the document: of extracted_data, and of
\* the record of src/parse_dishes.py
ProducedSteps ==
    (IF ~IsNone(d_extracted) /\ Val(d_extracted).raised = ""
     THEN {Val(d_extracted).steps} ELSE {})
        \cup (IF ~IsNone(d_legacy) THEN {Val(d_legacy).steps} ELSE {})

\* the ingredients sequences produced for the document
ProducedIngredients ==
    (IF ~IsNone(d_extracted) /\ Val(d_extracted).raised = ""
     THEN {Val(d_extracted).ingredients} ELSE {})
        \cup (IF ~IsNone(d_legacy) THEN {Val(d_legacy).ingredients} ELSE {})

\* C4 as stated: the steps sequence produced for a document is never empty;
\* when no step is found in the document it holds one placeholder step, of
\* ordinal 1.
C4_StepsNeverEmpty ==
    \A steps \in ProducedSteps : steps # <<>> /\ steps[1].step = 1

\* C6 as stated: no two entries of the ingredients sequence produced for a
\* document have the same name; of list entries with the same parsed name
\* only the first is kept.
C6_IngredientNamesDistinct ==
    \A ingredients \in ProducedIngredients :
        \A j, k \in 1..Len(ingredients) :
            j # k => ingredients[j].name # ingredients[k].name

-----------------------------------------------------------------------------
(* C3, C8, C10: parse_markdown_file on one document (SpecParse) *)

\* the document is one that _extract_with_unstructured raises nothing on
Extractable == _extract_with_unstructured(p_file).raised = ""

\* C3 as stated: two runs of parse_markdown_file on the same document, each
\* from the same identifier mapping and the same image mapping, return two
\* identical records.
C3_SecondRunSameRecord ==
    (~IsNone(p_first) /\ ~IsNone(p_second) /\ Extractable)
        => /\ Val(p_first).raised = ""
           /\ Val(p_second).raised = ""
           /\ ~IsNone(Val(p_first).record)
           /\ Val(p_first).record = Val(p_second).record

\* C8 as stated: when the transfer of an image fails, the document is not
\* aborted and the path that comes back for the record's images is the
\* original reference, with no prefix and not rewritten.
C8_FailedTransferKeepsReference ==
    ~IsNone(p_first)
        => \A k \in 1..Len(Val(p_first).transfers) :
              Val(p_first).transfers[k].failed
                  => /\ Val(p_first).raised = ""
                     /\ Val(p_first).transfers[k].returned
                            = Some(Val(p_first).transfers[k].image_path)

\* C10 as stated: for a document whose identifier is in the mapping,
\* parse_markdown_file returns a record whose image_path is the first entry
\* of its images, and absent when images is empty.
C10_MainImageIsFirstImage ==
    (/\ ~IsNone(p_first)
     /\ Extractable
     /\ _extract_dish_id(p_file.file_path, dishes_uuid_mapping).raised = "")
        => /\ Val(p_first).raised = ""
           /\ ~IsNone(Val(p_first).record)
           /\ Val(Val(p_first).record).image_path
                  = IF Val(Val(p_first).record).images # <<>>
                    THEN Some(Val(Val(p_first).record).images[1])
                    ELSE None

-----------------------------------------------------------------------------
(* C7, C9: scan_dishes_directory (SpecScan) *)

\* the documents of the walk that are in a directory of a known category
InCategory(df) == CategoryOf(s_walk[df[1]].root, DishesPath) \in Categories

\* the records of the document in the collection of category c
RecordsOf(df, c) ==
    {k \in 1..Len(dishes_by_category[c]) :
        dishes_by_category[c][k].source_path
            = _build_source_path(FilePathOf(s_walk, df[1], df[2]), BasePath)}

\* a diagnostic was printed for the document
Diagnosed(df) ==
    \E k \in 1..Len(s_diagnostics) :
        s_diagnostics[k].file_path = FilePathOf(s_walk, df[1], df[2])

C9_MappedDocumentsCollected ==
    s_done
        => \A df \in DocumentsOf(s_walk) :
              InCategory(df)
                  => IF _extract_dish_id(FilePathOf(s_walk, df[1], df[2]),
                                         dishes_uuid_mapping).raised # ""
                     THEN /\ \A c \in DOMAIN dishes_by_category : RecordsOf(df, c) = {}
                          /\ Diagnosed(df)
                     ELSE Cardinality(RecordsOf(df,
                              CategoryOf(s_walk[df[1]].root, DishesPath))) = 1

-----------------------------------------------------------------------------
(* The labelled time fields *)

\* the labelled fields the text is put together from, with the minutes each
\* stands for: 2 hours, 10 minutes, half an hour, twenty minutes
LabelledSegments ==
    { [seg |-> LabelTotal \o <<FullColon, "2", " ">> \o Hours, type |-> "total", minutes |-> 120],
      [seg |-> LabelPrep \o <<FullColon, "1", "0">> \o Minutes, type |-> "prep", minutes |-> 10],
      [seg |-> LabelCook \o <<FullColon, "U+534A">> \o Hours, type |-> "cook", minutes |-> 30],
      [seg |-> LabelTotal \o <<FullColon, "U+4E8C", "U+5341">> \o Minutes, type |-> "total", minutes |-> 20] }

\* the minutes the last field of the type in the text stands for
LastLabelled(type) ==
    LET at == {k \in 1..Len(t_segs) : \E l \in LabelledSegments : l.seg = t_segs[k] /\ l.type = type}
    IN  IF at = {} THEN None
        ELSE LET k == CHOOSE x \in at : \A y \in at : y <= x
             IN  Some((CHOOSE l \in LabelledSegments : l.seg = t_segs[k]).minutes)

\* C15 as stated: on a text with labelled fields whose quantities are an
\* Arabic numeral, a single Chinese numeral, the half or a compound such as
\* twenty, _extract_times does not raise, and the output of each field is
\* the quantity of its last occurrence in minutes.
C15_LabelledQuantitiesConverted ==
    ~IsNone(t_out) =>
        /\ Val(t_out).raised = ""
        /\ ~IsNone(LastLabelled("prep")) => Val(t_out).prep = LastLabelled("prep")
        /\ ~IsNone(LastLabelled("cook")) => Val(t_out).cook = LastLabelled("cook")
        /\ ~IsNone(LastLabelled("total")) => Val(t_out).total = LastLabelled("total")

\* the step phrases the text is put together from, with the minutes each
\* stands for: three hours with the particle, twenty minutes, fifteen minutes
StepPhrases ==
    { [seg |-> <<"U+4E09">> \o Ge \o Hours, minutes |-> 180],
      [seg |-> <<"U+4E8C", "U+5341">> \o Minutes, minutes |-> 20],
      [seg |-> <<"U+5341", "U+4E94">> \o Minutes, minutes |-> 15],
      [seg |-> LabelTotal \o <<FullColon, "2", " ">> \o Hours, minutes |-> 120],
      [seg |-> LabelPrep \o <<FullColon, "1", "0">> \o Minutes, minutes |-> 10],
      [seg |-> <<"x">>, minutes |-> 0],
      [seg |-> <<"\n">>, minutes |-> 0] }

RECURSIVE MentionedMinutes(_)
\* the minutes of the time mentions of the pieces, each counted once
MentionedMinutes(segs) ==
    IF segs = <<>> THEN 0
    ELSE (CHOOSE p \in StepPhrases : p.seg = Head(segs)).minutes + MentionedMinutes(Tail(segs))

\* the text is made of step phrases and fields other than the cooking time,
\* so that the fallback runs and its sum becomes the cooking time
StepPhrasesOnly == \A k \in 1..Len(t_segs) : \E p \in StepPhrases : p.seg = t_segs[k]

\* C18 as stated: in the step-derived fallback every time mention of the
\* text adds its minutes to the sum exactly once, whatever its numerals and
\* with the particle or without, and the fallback does not raise on a run
\* of Chinese numerals.
C18_EachMentionSummedOnce ==
    (~IsNone(t_out) /\ StepPhrasesOnly) =>
        /\ Val(t_out).raised = ""
        /\ MentionedMinutes(t_segs) > 0 => Val(t_out).cook = Some(MentionedMinutes(t_segs))

-----------------------------------------------------------------------------
(* The fields of the records of the laid out documents *)

\* the records produced for the document: extracted_data and the record of
\* src/parse_dishes.py
RecordLaidOut == Len(d_pieces) = 5

\* the number of stars after the marker of the document
StarsOf(piece) == Cardinality({k \in 1..Len(piece) : piece[k] = Star})

ProducedDifficulties ==
    (IF ~IsNone(d_extracted) /\ Val(d_extracted).raised = ""
     THEN {Val(d_extracted).difficulty} ELSE {})
        \cup (IF ~IsNone(d_legacy) THEN {Val(d_legacy).difficulty} ELSE {})

\* C11 as stated: the difficulty of every record is an integer in 0..5; it
\* is the length of the run of stars after the difficulty marker, and 0 when
\* the document has no marker.
C11_DifficultyIsStarRunWithinFive ==
    RecordLaidOut =>
        \A difficulty \in ProducedDifficulties :
            /\ difficulty \in 0..5
            /\ difficulty = StarsOf(d_pieces[3])

ProducedNotes ==
    (IF ~IsNone(d_extracted) /\ Val(d_extracted).raised = ""
     THEN {Val(d_extracted).additional_notes} ELSE {})
        \cup (IF ~IsNone(d_legacy) THEN {Val(d_legacy).additional_notes} ELSE {})

\* C12 as stated: the additional_notes of every record is never empty,
\* whichever of the references heading and the additional content heading
\* the document has, with content lines or without: at least one note is
\* recorded.
C12_NotesNeverEmpty ==
    RecordLaidOut => \A additional_notes \in ProducedNotes : additional_notes # <<>>

-----------------------------------------------------------------------------
(* The image handler and its mapping *)

\* C13 as stated: the transfer is performed on a miss only.  A call for a
\* reference that is in the mapping returns the path assigned to it and
\* performs no download, copy or recompression, so that no reference is
\* transferred twice.
C13_TransferOnMissOnly ==
    /\ \A k \in 1..Len(i_calls) :
          i_calls[k].known =>
              i_calls[k].performed = <<>> /\ i_calls[k].path = i_calls[k].assigned
    /\ \A j, k \in 1..Len(i_calls) :
          (j < k /\ i_calls[j].image_path = i_calls[k].image_path)
              => (i_calls[j].performed = <<>> \/ i_calls[k].performed = <<>>)

\* C14 as stated: the image mapping is append-only: no call changes or
\* removes the entry a reference has.
C14_MappingAppendOnly ==
    [][\A p \in DOMAIN images_mapping :
          p \in DOMAIN images_mapping' /\ images_mapping'[p] = images_mapping[p]]_vars

\* the parent item of the document, then its child, are among the entries
ParentThenChild(ingredients) ==
    \E j, k \in 1..Len(ingredients) :
        /\ j < k
        /\ ingredients[j].name # <<>>
        /\ (ingredients[j].name[1] = "p" \/ ingredients[j].name = Includes)
        /\ ingredients[k].name = <<"a">>

\* C16 as stated: a list item that ends with the colon or holds the word
\* for "contains" is recorded as an ingredient, and the more deeply indented
\* list line that follows it is recorded as an entry of its own after it:
\* the child is not dropped.
C16_ParentAndChildrenRecorded ==
    (RecordLaidOut /\ d_pieces[4] # <<>>) =>
        \A ingredients \in ProducedIngredients : ParentThenChild(ingredients)

ProducedNames ==
    (IF ~IsNone(d_extracted) /\ Val(d_extracted).raised = ""
     THEN {Val(d_extracted).title} ELSE {})
        \cup (IF ~IsNone(d_legacy) THEN {Val(d_legacy).name} ELSE {})

\* C17 as stated: the name of the record is the text of the first line of
\* the document that begins with one "#", also when other lines stand
\* before it, without the suffix; it is the file name without extension
\* only when the document has no such line.
C17_NameFromFirstHeadingLine ==
    RecordLaidOut =>
        \A name \in ProducedNames :
            name = IF d_pieces[2] # <<>> THEN <<"x">> ELSE <<"d">>

-----------------------------------------------------------------------------
(* The identifier generator and the assembler *)

\* C19 as stated: a run of the generator over the unchanged files that
\* starts from the mapping the run before it wrote leaves the mapping as it
\* found it: no entry is added, no document gets a new identifier.
C19_SecondRunAddsNothing ==
    \A k \in 2..Len(u_runs) :
        (u_runs[k - 1].raised = "" /\ u_runs[k].raised = "")
            => u_runs[k].after = u_runs[k].before

\* C20 as stated: in the main pipeline the generator hands its mapping to
\* the assembler, and the assembler's lookup of a document the generator
\* visited finds an identifier: the call of main.py does not raise, and no
\* lookup ends with the error of a missing identifier.
C20_GeneratedMappingServesLookups ==
    /\ \A k \in 1..Len(u_runs) : u_runs[k].by = "main" => u_runs[k].raised = ""
    /\ \A l \in u_lookups : l.raised = ""

=============================================================================
